---- MODULE Spec2Model ----
(***************************************************************************)
(* A model of smooth-vibes: the restore / backup protocol and the save     *)
(* workflow, as state machines over the state of the git repository they   *)
(* drive through git.Run.                                                  *)
(*                                                                         *)
(* Branch names are modelled as records [path, ts]: path is the sequence   *)
(* of '/'-separated components that are words, ts the trailing timestamp   *)
(* component (0 when the name has none).  "backup/main/20240101-000003"    *)
(* is [path |-> <<"backup","main">>, ts |-> 3].  A timestamp is the clock  *)
(* second it was formatted from: time.Format("20060102-150405") is fixed   *)
(* width and zero padded, so the byte order of two formatted timestamps is *)
(* the numeric order of their seconds.                                     *)
(***************************************************************************)
EXTENDS Integers, Sequences, FiniteSets, TLC

\* ---------------------------------------------------------------- bounds
MaxTime == 3          \* clock seconds 1..MaxTime
NumCommits == 2       \* the history is the chain 1 <- 2 <- ... <- NumCommits
MaxStoredBackups == 2 \* maxBackups in the config file is 0 (out of range) or this
MaxInflight == 1      \* commands launched by the TUI and not yet finished
MaxFailures == 1      \* git commands that fail within one operation
MaxSaves == 1         \* save executions launched

VARIABLES
    mode,          \* how the program was started: "tui" (smooth) or "web" (smooth web)
    refs,          \* git: branch name -> commit it points at
    current,       \* git: path of the checked-out branch (HEAD is refs[Br(current)])
    now,           \* the wall clock, in seconds
    branchSort,    \* git config branch.sort: the order `git branch` lists in
    storedMaxBackups, \* maxBackups as written in ~/.smooth/config.json
    appState,      \* main.Model.state
    restore,       \* ui.RestoreModel / ui.RevertModel (flow says which)
    backups,       \* ui.BackupsModel
    inflight,      \* tea.Cmds launched and still running
    lastOp,        \* the last operation that ran: its git.Run calls, in order,
                   \* and its result
    work,          \* git: the working tree, the ignore file, the index, the
                   \* commits made and how many of them are pushed
    storedAutoSync, \* autoSyncEnabled as written in ~/.smooth/config.json
    hasRemote,     \* git: whether the remote origin is configured
    save,          \* ui.SaveModel / ui.SaveV2Model / ui.QuicksaveModel (variant says which)
    saving,        \* the save tea.Cmds launched and still running
    saveOp,        \* the last save execution: its calls, in order, and its result
    menu,          \* ui.MenuModel: the changed files it lists and their actions
    graph,         \* git: commit -> the commits its history holds, itself included
    merging,       \* git: a merge stopped on conflicts and is not concluded
    stash,         \* git: the stash, most recent entry first
    experiments,   \* ui.ExperimentsModel
    worktree,      \* git: the entries git status --porcelain lists, in its order
    configFile,    \* ~/.smooth/config.json: whether it is there and parses, and
                   \* experimentsEnabled and theme as written in it
    subjects       \* git: commit -> the subject line of its message

saveVars == <<work, storedAutoSync, hasRemote, save, saving, saveOp>>

expVars == <<graph, merging, stash, experiments>>

fileVars == <<worktree, configFile, subjects>>

vars == <<mode, refs, current, now, branchSort, storedMaxBackups, appState, restore,
          backups, inflight, lastOp, saveVars, menu, expVars, fileVars>>

\* ------------------------------------------------------------ branch names
NoName == [path |-> <<>>, ts |-> 0]

Br(p) == [path |-> p, ts |-> 0]

\* fmt.Sprintf("backup/%s/%s", forBranch, timestamp)
BackupName(forBranch, timestamp) == [path |-> <<"backup">> \o forBranch, ts |-> timestamp]

\* fmt.Sprintf("backup/%s/", forBranch)
BackupPrefix(forBranch) == <<"backup">> \o forBranch

\* strings.HasPrefix(line, prefix) for a prefix that ends in '/'
HasPrefix(line, prefix) ==
    /\ Len(prefix) <= Len(line.path)
    /\ SubSeq(line.path, 1, Len(prefix)) = prefix
    /\ (Len(line.path) > Len(prefix) \/ line.ts > 0)

\* strings.TrimPrefix(line, prefix)
TrimPrefix(line, prefix) ==
    IF HasPrefix(line, prefix)
    THEN [path |-> SubSeq(line.path, Len(prefix) + 1, Len(line.path)), ts |-> line.ts]
    ELSE line

\* The words that occur as components of branch names, in byte order.
ComponentOrder ==
    <<"1", "2", "3", "4", "5", "a", "b", "backup", "dev", "experiment", "main", "master">>

RankOf(w) == CHOOSE i \in 1..Len(ComponentOrder) : ComponentOrder[i] = w

\* A name as the sequence of sort keys of its components: a digit sorts before
\* a letter, so a timestamp component (class 0) sorts before a word (class 1).
NameKey(n) ==
    [i \in 1..Len(n.path) |-> <<1, RankOf(n.path[i])>>]
        \o (IF n.ts > 0 THEN <<  <<0, n.ts>>  >> ELSE <<>>)

PairLess(a, b) == a[1] < b[1] \/ (a[1] = b[1] /\ a[2] < b[2])

\* strcmp on two names, component by component
KeyLess(a, b) ==
    \/ \E i \in 1..Len(a) :
          /\ i <= Len(b)
          /\ \A j \in 1..(i - 1) : a[j] = b[j]
          /\ PairLess(a[i], b[i])
    \/ (Len(a) < Len(b) /\ \A j \in 1..Len(a) : a[j] = b[j])

RefnameLess(x, y) == KeyLess(NameKey(x), NameKey(y))

\* The timestamp part of a backup's name as ListBackups extracts it; two of
\* them compare as strings do.
TimestampLess(x, y) == RefnameLess(x, y)

\* git branch: whether x is listed before y under the configured branch.sort.
\* Commits are numbered in the order they were made, so the commit number
\* orders committer dates; equal keys fall back to the refname.
ListedBefore(x, y, r, sort) ==
    CASE sort = "refname" -> RefnameLess(x, y)
      [] sort = "-refname" -> RefnameLess(y, x)
      [] sort = "-committerdate" ->
            r[x] > r[y] \/ (r[x] = r[y] /\ RefnameLess(x, y))

RECURSIVE SortRefs(_, _, _)
\* The branches of S in the order `git branch` lists them
SortRefs(S, r, sort) ==
    IF S = {} THEN <<>>
    ELSE LET m == CHOOSE x \in S : \A y \in S \ {x} : ListedBefore(x, y, r, sort)
         IN <<m>> \o SortRefs(S \ {m}, r, sort)

Reverse(s) == [i \in 1..Len(s) |-> s[Len(s) + 1 - i]]

Range(s) == {s[i] : i \in 1..Len(s)}

\* ------------------------------------------------------------ git commands
\* One call of a git package function, as the trace of an operation records
\* it; listed is what a ListBackups call returned
Call(op, name, commit, ok) ==
    [op |-> op, name |-> name, commit |-> commit, ok |-> ok, listed |-> <<>>]

\* The commits that exist
Commits == 1..NumCommits

\* Subject lines of one plain word
PlainSubjects == [c \in Commits |-> <<"x">>]

\* The history of a repository whose commits were made one after the other
LinearHistory == [c \in Commits |-> 1..c]

\* git log -<count>: the commits reachable from HEAD, most recent first; git
\* log fails on a branch that has no commit yet (head is 0)
LogLimit == 20

Log(head, count, fails) ==
    IF fails \/ head = 0 THEN [commits |-> <<>>, err |-> TRUE]
    ELSE LET n == IF head < count THEN head ELSE count
         IN [commits |-> [i \in 1..n |-> head + 1 - i], err |-> FALSE]

\* git rev-parse --abbrev-ref HEAD
CurrentBranch(cur) == cur

\* git reset --hard <commitHash>: moves the checked-out branch to the commit
ResetHard(r, cur, commitHash, fails) ==
    IF fails \/ commitHash \notin Commits
    THEN [refs |-> r, err |-> TRUE]
    ELSE [refs |-> [r EXCEPT ![Br(cur)] = commitHash], err |-> FALSE]

\* git branch -D <name>: refuses a branch that is missing or checked out
DeleteBranch(r, cur, name, fails) ==
    IF fails \/ name \notin DOMAIN r \/ name = Br(cur)
    THEN [refs |-> r, err |-> TRUE]
    ELSE [refs |-> [n \in (DOMAIN r) \ {name} |-> r[n]], err |-> FALSE]

DeleteBackup(r, cur, backupBranch, fails) == DeleteBranch(r, cur, backupBranch, fails)

\* git branch <backupName>: a new branch at HEAD; refuses an existing name
CreateBackup(r, cur, forBranch, t, fails) ==
    LET backupName == BackupName(forBranch, t)
    IN IF fails \/ backupName \in DOMAIN r
       THEN [name |-> NoName, err |-> TRUE, refs |-> r]
       ELSE [name |-> backupName, err |-> FALSE,
             refs |-> r @@ (backupName :> r[Br(cur)])]

\* ListBackups: the listed branches under the prefix, skipping those whose
\* `git log -1` fails, then reversed
ListBackups(r, sort, forBranch, listFails, logFails) ==
    LET prefix == BackupPrefix(forBranch)
        lines == SortRefs(DOMAIN r, r, sort)
        Keep(line) == HasPrefix(line, prefix) /\ line \notin logFails
        kept == SelectSeq(lines, Keep)
        info == [i \in 1..Len(kept) |->
                    [Name |-> kept[i], ForBranch |-> forBranch,
                     Timestamp |-> TrimPrefix(kept[i], prefix),
                     CommitHash |-> r[kept[i]]]]
    IN IF listFails THEN [backups |-> <<>>, err |-> TRUE]
       ELSE [backups |-> Reverse(info), err |-> FALSE]

RECURSIVE TrimLoopStops(_, _, _, _, _)
\* The loop as it would be if a failed deletion ended it (return instead of continue)
TrimLoopStops(r, cur, bs, i, delFails) ==
    IF i > Len(bs) THEN [refs |-> r, calls |-> <<>>]
    ELSE LET d == DeleteBackup(r, cur, bs[i].Name, bs[i].Name \in delFails)
             rest == IF d.err THEN [refs |-> d.refs, calls |-> <<>>]
                     ELSE TrimLoopStops(d.refs, cur, bs, i + 1, delFails)
         IN [refs |-> rest.refs,
             calls |-> <<Call("DeleteBackup", bs[i].Name, 0, ~d.err)>> \o rest.calls]

RECURSIVE TrimLoop(_, _, _, _, _)
\* for i := maxCount; i < len(backups); i++ { DeleteBackup(backups[i].Name) }
\* (i counts from 1 here); a failed deletion is skipped
TrimLoop(r, cur, bs, i, delFails) ==
    IF i > Len(bs) THEN [refs |-> r, calls |-> <<>>]
    ELSE LET d == DeleteBackup(r, cur, bs[i].Name, bs[i].Name \in delFails)
             rest == TrimLoop(d.refs, cur, bs, i + 1, delFails)
         IN [refs |-> rest.refs,
             calls |-> <<Call("DeleteBackup", bs[i].Name, 0, ~d.err)>> \o rest.calls]

\* TrimBackups once ListBackups has returned lb: nothing to do within the
\* limit, otherwise the deletion loop.  The trace holds the listing, the
\* deletions, and what TrimBackups returns.
TrimListed(r, cur, forBranch, maxCount0, lb, delFails) ==
    LET maxCount == IF maxCount0 < 1 THEN 1 ELSE maxCount0
        listed == <<[Call("ListBackups", Br(forBranch), Len(lb.backups), ~lb.err)
                        EXCEPT !.listed = [i \in 1..Len(lb.backups) |-> lb.backups[i].Name]]>>
        Returns(r2, err, calls) ==
            [refs |-> r2, err |-> err,
             calls |-> listed \o calls \o <<Call("TrimBackups", Br(forBranch), maxCount0, ~err)>>]
        Deletions(loop) == Returns(loop.refs, FALSE, loop.calls)
    IN IF lb.err THEN Returns(r, TRUE, <<>>)
       ELSE IF Len(lb.backups) <= maxCount THEN Returns(r, FALSE, <<>>)
       ELSE Deletions(TrimLoop(r, cur, lb.backups, maxCount + 1, delFails))

\* TrimBackups(forBranch, maxCount)
TrimBackups(r, cur, sort, forBranch, maxCount0, listFails, logFails, delFails) ==
    TrimListed(r, cur, forBranch, maxCount0,
               ListBackups(r, sort, forBranch, listFails, logFails), delFails)

\* RestoreBackup(backupBranch): git reset --hard <backupBranch>
RestoreBackup(r, cur, backupBranch, fails) ==
    IF backupBranch \in DOMAIN r
    THEN ResetHard(r, cur, r[backupBranch], fails)
    ELSE [refs |-> r, err |-> TRUE]

\* config.Themes: its keys
Themes ==
    {"coral", "ocean", "forest", "dracula", "nord",
     "solarized", "monokai", "cyberpunk", "gruvbox", "rosepine"}

\* config.DefaultConfig
DefaultMaxBackups == 10

DefaultConfig ==
    [AutoSyncEnabled |-> FALSE, MaxBackups |-> DefaultMaxBackups,
     ExperimentsEnabled |-> FALSE, Theme |-> "coral"]

\* A config file that is there and parses, as the sessions of the screens
\* have it
StoredConfig == [found |-> TRUE, parses |-> TRUE, experimentsEnabled |-> TRUE, theme |-> "coral"]

\* Load as it would be if it returned the theme of the file unchecked
LoadFileAnyTheme(file, maxBackups, autoSync) ==
    IF ~file.found THEN [cfg |-> DefaultConfig, err |-> ""]
    ELSE IF ~file.parses THEN [cfg |-> DefaultConfig, err |-> "json"]
    ELSE [cfg |-> [AutoSyncEnabled |-> autoSync,
                   MaxBackups |-> IF maxBackups < 1 THEN 1 ELSE maxBackups,
                   ExperimentsEnabled |-> file.experimentsEnabled,
                   Theme |-> file.theme],
          err |-> ""]

\* config.Load on a config file: the defaults when it is missing or does not
\* parse (an error for the latter); else its fields, maxBackups below 1 raised
\* to 1 and a theme that is empty or no key of Themes replaced by coral.  A
\* field the file leaves out reads as false, 0 or "".
LoadFile(file, maxBackups, autoSync) ==
    IF ~file.found THEN [cfg |-> DefaultConfig, err |-> ""]
    ELSE IF ~file.parses THEN [cfg |-> DefaultConfig, err |-> "json"]
    ELSE [cfg |-> [AutoSyncEnabled |-> autoSync,
                   MaxBackups |-> IF maxBackups < 1 THEN 1 ELSE maxBackups,
                   ExperimentsEnabled |-> file.experimentsEnabled,
                   Theme |-> IF file.theme = "" THEN "coral"
                             ELSE IF file.theme \notin Themes THEN "coral"
                             ELSE file.theme],
          err |-> ""]

\* cfg, _ := config.Load()
Load == LoadFile(configFile, storedMaxBackups, storedAutoSync).cfg

\* ------------------------------------------------- restore: the operations
\* The ways the git commands of one operation can fail
BackupsUnder(r, forBranch) == {n \in DOMAIN r : HasPrefix(n, BackupPrefix(forBranch))}

Failures(r, forBranch, t) ==
    LET B == BackupsUnder(r, forBranch) \cup {BackupName(forBranch, t)}
        Count(f) == (IF f.backupFails THEN 1 ELSE 0) + (IF f.listFails THEN 1 ELSE 0)
                      + (IF f.resetFails THEN 1 ELSE 0)
                      + Cardinality(f.logFails) + Cardinality(f.delFails)
        Few == {S \in SUBSET B : Cardinality(S) <= MaxFailures}
    IN {f \in [backupFails : BOOLEAN, listFails : BOOLEAN, resetFails : BOOLEAN,
               logFails : Few, delFails : Few] : Count(f) <= MaxFailures}

NoFailures ==
    [backupFails |-> FALSE, listFails |-> FALSE, resetFails |-> FALSE,
     logFails |-> {}, delFails |-> {}]

\* doRestore as it would be if the error of CreateBackup were only reported:
\* the reset goes ahead without a backup
doRestoreUnchecked(r, cur, sort, t, commitHash, branch, f) ==
    LET cb == CreateBackup(r, cur, branch, t, f.backupFails)
        created == <<Call("CreateBackup", BackupName(branch, t), r[Br(cur)], ~cb.err)>>
        cfg == Load
        tb == TrimBackups(cb.refs, cur, sort, branch, cfg.MaxBackups,
                          f.listFails, f.logFails, f.delFails)
        rh == ResetHard(tb.refs, cur, commitHash, f.resetFails)
    IN [refs |-> rh.refs,
        Err |-> IF cb.err THEN "failed to create backup"
                ELSE IF rh.err THEN "reset failed" ELSE "",
        BackupName |-> cb.name,
        calls |-> created \o tb.calls \o <<Call("ResetHard", NoName, commitHash, ~rh.err)>>]

\* doRestore(commitHash, branch): backup, trim, reset; the RestoreMsg it returns
doRestore(r, cur, sort, t, commitHash, branch, f) ==
    LET cb == CreateBackup(r, cur, branch, t, f.backupFails)
        created == <<Call("CreateBackup", BackupName(branch, t), r[Br(cur)], ~cb.err)>>
    IN IF cb.err
       THEN [refs |-> cb.refs, Err |-> "failed to create backup", BackupName |-> NoName,
             calls |-> created]
       ELSE LET cfg == Load
                tb == TrimBackups(cb.refs, cur, sort, branch, cfg.MaxBackups,
                                  f.listFails, f.logFails, f.delFails)
                rh == ResetHard(tb.refs, cur, commitHash, f.resetFails)
            IN [refs |-> rh.refs,
                Err |-> IF rh.err THEN "reset failed" ELSE "",
                BackupName |-> cb.name,
                calls |-> created \o tb.calls
                            \o <<Call("ResetHard", NoName, commitHash, ~rh.err)>>]

\* doRevert(commitHash, branch): the same protocol, returning a RevertMsg
doRevert(r, cur, sort, t, commitHash, branch, f) ==
    LET cb == CreateBackup(r, cur, branch, t, f.backupFails)
        created == <<Call("CreateBackup", BackupName(branch, t), r[Br(cur)], ~cb.err)>>
    IN IF cb.err
       THEN [refs |-> cb.refs, Err |-> "failed to create backup", BackupName |-> NoName,
             calls |-> created]
       ELSE LET cfg == Load
                tb == TrimBackups(cb.refs, cur, sort, branch, cfg.MaxBackups,
                                  f.listFails, f.logFails, f.delFails)
                rh == ResetHard(tb.refs, cur, commitHash, f.resetFails)
            IN [refs |-> rh.refs,
                Err |-> IF rh.err THEN "reset failed" ELSE "",
                BackupName |-> cb.name,
                calls |-> created \o tb.calls
                            \o <<Call("ResetHard", NoName, commitHash, ~rh.err)>>]

\* handleRestore: POST /api/restore {commitHash}; the status and the backup
\* field of the response
handleRestore(r, cur, sort, t, method, bodyOk, commitHash, f) ==
    IF method # "POST"
    THEN [refs |-> r, status |-> 405, backup |-> NoName, calls |-> <<>>]
    ELSE IF ~bodyOk
    THEN [refs |-> r, status |-> 400, backup |-> NoName, calls |-> <<>>]
    ELSE LET branch == CurrentBranch(cur)
             cb == CreateBackup(r, cur, branch, t, f.backupFails)
             created == <<Call("CreateBackup", BackupName(branch, t), r[Br(cur)], ~cb.err)>>
         IN IF cb.err
            THEN [refs |-> cb.refs, status |-> 500, backup |-> NoName, calls |-> created]
            ELSE LET cfg == Load
                     tb == TrimBackups(cb.refs, cur, sort, branch, cfg.MaxBackups,
                                       f.listFails, f.logFails, f.delFails)
                     rh == ResetHard(tb.refs, cur, commitHash, f.resetFails)
                     calls == created \o tb.calls
                                \o <<Call("ResetHard", NoName, commitHash, ~rh.err)>>
                 IN IF rh.err
                    THEN [refs |-> rh.refs, status |-> 500, backup |-> NoName, calls |-> calls]
                    ELSE [refs |-> rh.refs, status |-> 200, backup |-> cb.name, calls |-> calls]

\* doRestoreBackup(backupBranch): the BackupsMsg it returns
doRestoreBackup(r, cur, backupBranch, fails) ==
    LET rb == RestoreBackup(r, cur, backupBranch, fails)
    IN [refs |-> rb.refs, Err |-> IF rb.err THEN "reset failed" ELSE "",
        calls |-> <<Call("ResetHard", backupBranch, 0, ~rb.err)>>]

\* handleRestoreBackup: POST /api/restore-backup {backupName}
handleRestoreBackup(r, cur, method, bodyOk, backupName, fails) ==
    IF method # "POST"
    THEN [refs |-> r, status |-> 405, calls |-> <<>>]
    ELSE IF ~bodyOk
    THEN [refs |-> r, status |-> 400, calls |-> <<>>]
    ELSE LET rb == RestoreBackup(r, cur, backupName, fails)
         IN [refs |-> rb.refs, status |-> IF rb.err THEN 500 ELSE 200,
             calls |-> <<Call("ResetHard", backupName, 0, ~rb.err)>>]

\* What the last operation was and did: its git commands in order, its error,
\* the backup it reports, the HTTP status (0 for a TUI command), and the
\* branches and HEAD as it found them.
Op(kind, calls, err, backup, status) ==
    [kind |-> kind, calls |-> calls, err |-> err, backup |-> backup, status |-> status,
     preRefs |-> refs, preHead |-> refs[Br(current)]]

NoOp == [kind |-> "none", calls |-> <<>>, err |-> "", backup |-> NoName, status |-> 0,
         preRefs |-> <<>>, preHead |-> 0]

\* ------------------------------------------------------ restore: the TUI
\* The zero RestoreModel / BackupsModel that main.NewModel leaves in Model
NoBackupInfo == [Name |-> NoName, ForBranch |-> <<>>, Timestamp |-> NoName, CommitHash |-> 0]

\* The zero ExperimentsModel
ZeroExperimentsModel ==
    [state |-> "Menu", cursor |-> 0, experiments |-> <<>>, expCursor |-> 0,
     currentBranch |-> <<>>, isOnMain |-> FALSE, err |-> "", message |-> "", input |-> ""]

ZeroRestoreModel ==
    [flow |-> "restore", state |-> "List", commits |-> <<>>, cursor |-> 0, selected |-> 0,
     branch |-> <<>>, backupName |-> NoName, err |-> ""]

ZeroBackupsModel ==
    [state |-> "List", backups |-> <<>>, cursor |-> 0, selected |-> NoBackupInfo,
     branch |-> <<>>, err |-> ""]

\* NewRestoreModel / NewRevertModel
NewRestoreModel(flow, logFails) ==
    LET lg == Log(refs[Br(current)], LogLimit, logFails)
    IN [flow |-> flow,
        state |-> IF lg.err \/ Len(lg.commits) = 0 THEN "Empty" ELSE "List",
        commits |-> lg.commits, cursor |-> 0, selected |-> 0,
        branch |-> CurrentBranch(current), backupName |-> NoName, err |-> ""]

\* NewBackupsModel
NewBackupsModel(listFails, logFails) ==
    LET branch == CurrentBranch(current)
        lb == ListBackups(refs, branchSort, branch, listFails, logFails)
    IN [state |-> IF Len(lb.backups) = 0 THEN "Empty" ELSE "List",
        backups |-> lb.backups, cursor |-> 0, selected |-> NoBackupInfo,
        branch |-> branch, err |-> ""]

\* RestoreModel.IsDone / BackupsModel.IsDone
RestoreIsDone == restore.state \in {"Success", "Error", "Empty"}

BackupsIsDone == backups.state \in {"Success", "Error", "Empty"}

\* RestoreModel.Update(RestoreMsg) / RevertModel.Update(RevertMsg)
RestoreUpdateMsg(m, msg) ==
    [m EXCEPT !.backupName = msg.BackupName,
              !.state = IF msg.Err # "" THEN "Error" ELSE "Success",
              !.err = IF msg.Err # "" THEN msg.Err ELSE m.err]

\* BackupsModel.Update(BackupsMsg)
BackupsUpdateMsg(m, msg) ==
    [m EXCEPT !.state = IF msg.Err # "" THEN "Error" ELSE "Success",
              !.err = IF msg.Err # "" THEN msg.Err ELSE m.err]

\* ------------------------------------------------------------ the menu
\* The files of the working tree, in the order git status lists them.  All are
\* tracked, so an ignore pattern does not hide them.
GitignorePath == ".gitignore"

Paths == <<GitignorePath, "a.txt", "b.txt">>

\* git.GetChangeSummary: the changed files as git status --porcelain lists them
GetChangeSummary(w) ==
    LET Changed(p) == w.tree[p]
    IN SelectSeq(Paths, Changed)

\* FileAction
FileActions == {"Save", "Revert", "IgnoreOnce", "Ignore"}

\* A map[string]FileAction holds an action for some paths and none for the rest
NoActions == [p \in Range(Paths) |-> "none"]

\* m[path] of a map[string]FileAction: the zero FileAction, Save, for a path
\* without an entry
MapGet(fileActions, path) ==
    IF fileActions[path] = "none" THEN "Save" ELSE fileActions[path]

\* for _, f := range changedFiles { fileActions[f.Path] = FileActionSave }
AllSave(changedFiles) ==
    [p \in Range(Paths) |-> IF p \in Range(changedFiles) THEN "Save" ELSE "none"]

\* IsOnMain
IsOnMain(cur) == cur = <<"main">> \/ cur = <<"master">>

\* buildMenuItems: the actions of the items, in the order the menu lists them
buildMenuItems(isOnMain, experimentsEnabled) ==
    <<"Quicksave", "Restore">>
       \o (IF ~isOnMain THEN <<"KeepExperiment", "AbandonExperiment">> ELSE <<>>)
       \o <<"Backups">>
       \o (IF experimentsEnabled THEN <<"Experiments">> ELSE <<>>)
       \o <<"Sync", "Settings", "Quit">>

\* NewMenuModel
NewMenuModel(w) ==
    LET changedFiles == GetChangeSummary(w)
    IN [changedFiles |-> changedFiles, focusRight |-> FALSE, fileCursor |-> 0,
        fileActions |-> AllSave(changedFiles),
        cursor |-> 0, isOnMain |-> IsOnMain(current),
        items |-> buildMenuItems(IsOnMain(current), Load.ExperimentsEnabled)]

\* if m.fileCursor >= len(m.changedFiles) { m.fileCursor = max(0, len-1) }
ClampCursor(fileCursor, changedFiles) ==
    IF fileCursor >= Len(changedFiles)
    THEN (IF Len(changedFiles) - 1 > 0 THEN Len(changedFiles) - 1 ELSE 0)
    ELSE fileCursor

\* MenuModel.RefreshStatus: the branch and the changes are read again, the
\* items are rebuilt and the cursor is brought back into them, and every
\* action is reset to Save
RefreshStatus(m, w) ==
    LET changedFiles == GetChangeSummary(w)
        items == buildMenuItems(IsOnMain(current), Load.ExperimentsEnabled)
    IN [m EXCEPT !.changedFiles = changedFiles,
                 !.fileCursor = ClampCursor(m.fileCursor, changedFiles),
                 !.fileActions = AllSave(changedFiles),
                 !.isOnMain = IsOnMain(current),
                 !.items = items,
                 !.cursor = IF m.cursor >= Len(items) THEN Len(items) - 1 ELSE m.cursor]

\* MenuModel.Update(tickMsg): the branch and the changes are read again and
\* the items are rebuilt, the actions chosen are kept and new files get Save;
\* the cursor is left where it is
MenuUpdateTick(m, w) ==
    LET changedFiles == GetChangeSummary(w)
    IN [m EXCEPT !.changedFiles = changedFiles,
                 !.fileCursor = ClampCursor(m.fileCursor, changedFiles),
                 !.fileActions = [p \in Range(Paths) |->
                                     IF p \in Range(changedFiles) /\ m.fileActions[p] = "none"
                                     THEN "Save" ELSE m.fileActions[p]],
                 !.isOnMain = IsOnMain(current),
                 !.items = buildMenuItems(IsOnMain(current), Load.ExperimentsEnabled)]

\* cycleFileAction
cycleFileAction(a) ==
    CASE a = "Save" -> "Revert"
      [] a = "Revert" -> "IgnoreOnce"
      [] a = "IgnoreOnce" -> "Ignore"
      [] a = "Ignore" -> "Save"

repoVars == <<mode, refs, current, now, branchSort, storedMaxBackups>>

\* The clock advances
Tick ==
    /\ now < MaxTime
    /\ now' = now + 1
    /\ UNCHANGED <<fileVars, expVars, menu, saveVars, mode, refs, current, branchSort, storedMaxBackups, appState, restore,
                   backups, inflight, lastOp>>

\* main.Update: enter on the menu with "Restore" selected.  RevertModel is the
\* same screen under another name and is driven the same way.  A screen is
\* entered while another command can be launched.
MenuEnterRestore ==
    /\ mode = "tui" /\ appState = "menu"
    /\ Cardinality(inflight) < MaxInflight
    /\ \E flow \in {"restore", "revert"}, logFails \in BOOLEAN :
          restore' = NewRestoreModel(flow, logFails)
    /\ appState' = "restore"
    /\ lastOp' = NoOp
    /\ UNCHANGED <<fileVars, expVars, menu, saveVars, repoVars, backups, inflight>>

\* main.Update: enter on the menu with "Restore backup" selected
MenuEnterBackups ==
    /\ mode = "tui" /\ appState = "menu"
    /\ Cardinality(inflight) < MaxInflight
    /\ \E listFails \in BOOLEAN,
          logFails \in {S \in SUBSET BackupsUnder(refs, current) :
                           Cardinality(S) <= MaxFailures} :
          /\ listFails => logFails = {}
          /\ backups' = NewBackupsModel(listFails, logFails)
    /\ appState' = "backups"
    /\ lastOp' = NoOp
    /\ UNCHANGED <<fileVars, expVars, menu, saveVars, repoVars, restore, inflight>>

\* main.Update: esc leaves the restore and backups screens, whatever they are doing.
\* The model left behind is never read again (the next enter on the menu
\* replaces it), so it is kept as the zero model while the menu shows.
Esc ==
    /\ appState \in {"restore", "backups"}
    /\ appState' = "menu"
    /\ restore' = ZeroRestoreModel
    /\ backups' = ZeroBackupsModel
    /\ lastOp' = NoOp
    /\ menu' = RefreshStatus(menu, work)
    /\ UNCHANGED <<fileVars, expVars, saveVars, repoVars, inflight>>

\* main.Update: any key on a screen that is done goes back to the menu
AnyKeyWhenDone ==
    /\ \/ appState = "restore" /\ RestoreIsDone
       \/ appState = "backups" /\ BackupsIsDone
    /\ appState' = "menu"
    /\ restore' = ZeroRestoreModel
    /\ backups' = ZeroBackupsModel
    /\ lastOp' = NoOp
    /\ menu' = RefreshStatus(menu, work)
    /\ UNCHANGED <<fileVars, expVars, saveVars, repoVars, inflight>>

\* RestoreModel.Update(KeyMsg) in RestoreStateList: up, down, enter
RestoreKeyList ==
    /\ appState = "restore" /\ ~RestoreIsDone /\ restore.state = "List"
    /\ \/ /\ restore.cursor > 0
          /\ restore' = [restore EXCEPT !.cursor = @ - 1]
       \/ /\ restore.cursor < Len(restore.commits) - 1
          /\ restore' = [restore EXCEPT !.cursor = @ + 1]
       \/ restore' = [restore EXCEPT !.selected = restore.commits[restore.cursor + 1],
                                     !.state = "Confirm"]
    /\ UNCHANGED <<fileVars, expVars, menu, saveVars, repoVars, appState, backups, inflight, lastOp>>

\* RestoreModel.Update(KeyMsg) in RestoreStateConfirm: n goes back to the list
RestoreKeyNo ==
    /\ appState = "restore" /\ restore.state = "Confirm"
    /\ restore' = [restore EXCEPT !.state = "List"]
    /\ UNCHANGED <<fileVars, expVars, menu, saveVars, repoVars, appState, backups, inflight, lastOp>>

\* RestoreModel.Update(KeyMsg) in RestoreStateConfirm: y launches doRestore
RestoreKeyYes ==
    /\ appState = "restore" /\ restore.state = "Confirm"
    /\ Cardinality(inflight) < MaxInflight
    /\ restore' = [restore EXCEPT !.state = "Restoring"]
    /\ inflight' = inflight \cup
          {[kind |-> IF restore.flow = "revert" THEN "doRevert" ELSE "doRestore",
            hash |-> restore.selected, branch |-> restore.branch, backup |-> NoName]}
    /\ UNCHANGED <<fileVars, expVars, menu, saveVars, repoVars, appState, backups, lastOp>>

\* BackupsModel.Update(KeyMsg) in BackupsStateList: up, down, enter
BackupsKeyList ==
    /\ appState = "backups" /\ ~BackupsIsDone /\ backups.state = "List"
    /\ \/ /\ backups.cursor > 0
          /\ backups' = [backups EXCEPT !.cursor = @ - 1]
       \/ /\ backups.cursor < Len(backups.backups) - 1
          /\ backups' = [backups EXCEPT !.cursor = @ + 1]
       \/ backups' = [backups EXCEPT !.selected = backups.backups[backups.cursor + 1],
                                     !.state = "Confirm"]
    /\ UNCHANGED <<fileVars, expVars, menu, saveVars, repoVars, appState, restore, inflight, lastOp>>

\* BackupsModel.Update(KeyMsg) in BackupsStateConfirm: n goes back to the list
BackupsKeyNo ==
    /\ appState = "backups" /\ backups.state = "Confirm"
    /\ backups' = [backups EXCEPT !.state = "List"]
    /\ UNCHANGED <<fileVars, expVars, menu, saveVars, repoVars, appState, restore, inflight, lastOp>>

\* BackupsModel.Update(KeyMsg) in BackupsStateConfirm: y launches doRestoreBackup
BackupsKeyYes ==
    /\ appState = "backups" /\ backups.state = "Confirm"
    /\ Cardinality(inflight) < MaxInflight
    /\ backups' = [backups EXCEPT !.state = "Restoring"]
    /\ inflight' = inflight \cup
          {[kind |-> "doRestoreBackup", hash |-> 0, branch |-> backups.branch,
            backup |-> backups.selected.Name]}
    /\ UNCHANGED <<fileVars, expVars, menu, saveVars, repoVars, appState, restore, lastOp>>

\* lastOp is the operation whose outcome is being looked at: entering or
\* leaving a screen starts afresh.
\* A launched doRestore / doRevert runs, and main.Update hands its message to
\* the screen that is showing
RunRestoreCmd ==
    \E cmd \in inflight, f \in Failures(refs, current, now) :
       /\ cmd.kind \in {"doRestore", "doRevert"}
       /\ LET res == IF cmd.kind = "doRestore"
                     THEN doRestore(refs, current, branchSort, now, cmd.hash, cmd.branch, f)
                     ELSE doRevert(refs, current, branchSort, now, cmd.hash, cmd.branch, f)
              shown == /\ appState = "restore"
                       /\ restore.flow = (IF cmd.kind = "doRestore" THEN "restore" ELSE "revert")
          IN /\ refs' = res.refs
             /\ restore' = IF shown THEN RestoreUpdateMsg(restore, res) ELSE restore
             /\ lastOp' = Op(cmd.kind, res.calls, res.Err, res.BackupName, 0)
       /\ inflight' = inflight \ {cmd}
       /\ UNCHANGED <<fileVars, expVars, menu, saveVars, mode, current, now, branchSort, storedMaxBackups, appState, backups>>

\* A launched doRestoreBackup runs, and its message is handed on
RunRestoreBackupCmd ==
    \E cmd \in inflight, fails \in BOOLEAN :
       /\ cmd.kind = "doRestoreBackup"
       /\ LET res == doRestoreBackup(refs, current, cmd.backup, fails)
          IN /\ refs' = res.refs
             /\ backups' = IF appState = "backups" THEN BackupsUpdateMsg(backups, res)
                           ELSE backups
             /\ lastOp' = Op(cmd.kind, res.calls, res.Err, NoName, 0)
       /\ inflight' = inflight \ {cmd}
       /\ UNCHANGED <<fileVars, expVars, menu, saveVars, mode, current, now, branchSort, storedMaxBackups, appState, restore>>

\* The requests the web server is sent: a wrong method, a body that does not
\* decode, or a well-formed POST
Requests == {[method |-> "GET", bodyOk |-> TRUE], [method |-> "POST", bodyOk |-> FALSE],
             [method |-> "POST", bodyOk |-> TRUE]}

WellFormed(req) == req.method = "POST" /\ req.bodyOk

\* The web server answers /api/restore
WebRestore ==
    /\ mode = "web"
    /\ \E req \in Requests, hash \in 0..NumCommits, f \in Failures(refs, current, now) :
       /\ WellFormed(req) \/ (hash = 0 /\ f = NoFailures)
       /\ LET res == handleRestore(refs, current, branchSort, now, req.method, req.bodyOk,
                                   hash, f)
          IN /\ refs' = res.refs
             /\ lastOp' = Op("handleRestore", res.calls,
                             IF res.status = 200 THEN "" ELSE "error", res.backup,
                             res.status)
       /\ UNCHANGED <<fileVars, expVars, menu, saveVars, mode, current, now, branchSort, storedMaxBackups, appState, restore,
                      backups, inflight>>

\* The web server answers /api/restore-backup
WebRestoreBackup ==
    /\ mode = "web"
    /\ \E req \in Requests, name \in BackupsUnder(refs, current) \cup {NoName},
       fails \in BOOLEAN :
       /\ WellFormed(req) \/ (name = NoName /\ ~fails)
       /\ LET res == handleRestoreBackup(refs, current, req.method, req.bodyOk, name, fails)
          IN /\ refs' = res.refs
             /\ lastOp' = Op("handleRestoreBackup", res.calls,
                             IF res.status = 200 THEN "" ELSE "error", NoName,
                             res.status)
       /\ UNCHANGED <<fileVars, expVars, menu, saveVars, mode, current, now, branchSort, storedMaxBackups, appState, restore,
                      backups, inflight>>

\* ------------------------------------------------------- save: git commands
\* One call of a git package function, as the trace of a save records it
SaveCall(op, paths, ok) == [op |-> op, paths |-> paths, ok |-> ok]

\* git.HasChanges
HasChanges(w) == \E p \in Range(Paths) : w.tree[p]

\* git.RevertFiles(paths): git checkout HEAD -- paths, which puts back the
\* committed text of the ignore file when it is among them
RevertFiles(w, paths, fails) ==
    IF fails THEN [work |-> w, err |-> TRUE]
    ELSE [work |-> [w EXCEPT !.tree = [p \in DOMAIN w.tree |->
                                          IF p \in Range(paths) THEN FALSE ELSE w.tree[p]],
                             !.ignoreFile = IF GitignorePath \in Range(paths)
                                            THEN w.ignoreHead ELSE @,
                             !.index = @ \ Range(paths)],
          err |-> FALSE]

\* AddToGitignore as it would be if it wrote pattern + "\n"
AddToGitignoreGlued(w, pattern, fails) ==
    IF fails THEN [work |-> w, err |-> TRUE]
    ELSE [work |-> [w EXCEPT !.ignoreFile = @ \o <<pattern, "\n">>,
                             !.tree[GitignorePath] = TRUE],
          err |-> FALSE]

\* AddToGitignore as it would be if it left alone a file that holds the pattern
AddToGitignoreOnce(w, pattern, fails) ==
    IF fails THEN [work |-> w, err |-> TRUE]
    ELSE IF pattern \in Range(w.ignoreFile) THEN [work |-> w, err |-> FALSE]
    ELSE [work |-> [w EXCEPT !.ignoreFile = @ \o <<"\n", pattern>>,
                             !.tree[GitignorePath] = TRUE],
          err |-> FALSE]

\* git.AddToGitignore(pattern): appends "\n" + pattern to .gitignore,
\* creating it when it is missing.  The text of the file is a sequence of
\* pieces, each a newline or a run of other characters.
AddToGitignore(w, pattern, fails) ==
    IF fails THEN [work |-> w, err |-> TRUE]
    ELSE [work |-> [w EXCEPT !.ignoreFile = @ \o <<"\n", pattern>>,
                             !.tree[GitignorePath] = TRUE],
          err |-> FALSE]

\* git.AddFiles(paths): git add -- paths; nothing is run for no paths
AddFiles(w, paths, fails) ==
    IF Len(paths) = 0 THEN [work |-> w, err |-> FALSE]
    ELSE IF fails THEN [work |-> w, err |-> TRUE]
    ELSE [work |-> [w EXCEPT !.index = @ \cup {p \in Range(paths) : w.tree[p]}],
          err |-> FALSE]

\* git.Commit(message): git commit -m message, which fails with nothing staged
\* and with an empty message
Commit(w, message, fails) ==
    IF fails \/ w.index = {} \/ message = "" THEN [work |-> w, err |-> TRUE]
    ELSE [work |-> [w EXCEPT !.history = Append(@, [message |-> message, files |-> w.index]),
                             !.tree = [p \in DOMAIN w.tree |->
                                          IF p \in w.index THEN FALSE ELSE w.tree[p]],
                             !.ignoreHead = IF GitignorePath \in w.index
                                            THEN w.ignoreFile ELSE @,
                             !.index = {}],
          err |-> FALSE]

\* git.HasRemote: git remote get-url origin succeeds and prints the URL
\* exactly when the remote origin is configured
HasRemote(origin) == origin

\* One git command as Push runs it, with the branch it names
GitCall(cmd, branch) == [cmd |-> cmd, branch |-> branch]

\* What Push returns: the repository as it leaves it, the error ("" for nil),
\* and the git commands it ran, in order
PushResult(w, error, calls) ==
    [work |-> w, err |-> error # "", error |-> error, calls |-> calls]

\* Push as it would be if it did not ask HasRemote first
PushUnasked(w, origin, cur, currentFails, pushFails) ==
    LET revParse == GitCall("rev-parse --abbrev-ref HEAD", <<>>)
        push == GitCall("push -u origin", cur)
    IN IF currentFails THEN PushResult(w, "rev-parse failed", <<revParse>>)
       ELSE IF pushFails \/ ~origin THEN PushResult(w, "push failed", <<revParse, push>>)
       ELSE PushResult([w EXCEPT !.pushed = Len(w.history)], "", <<revParse, push>>)

\* git.Push: NoRemoteError when HasRemote says no; else the error of
\* CurrentBranch when git rev-parse fails; else git push -u origin <branch> and
\* its result
Push(w, origin, cur, currentFails, pushFails) ==
    LET getUrl == GitCall("remote get-url origin", <<>>)
        revParse == GitCall("rev-parse --abbrev-ref HEAD", <<>>)
        push == GitCall("push -u origin", cur)
    IN IF ~HasRemote(origin) THEN PushResult(w, "NoRemoteError", <<getUrl>>)
       ELSE IF currentFails THEN PushResult(w, "rev-parse failed", <<getUrl, revParse>>)
       ELSE IF pushFails THEN PushResult(w, "push failed", <<getUrl, revParse, push>>)
       ELSE PushResult([w EXCEPT !.pushed = Len(w.history)], "", <<getUrl, revParse, push>>)

\* The lines of a text
RECURSIVE SplitLines(_)
SplitLines(text) ==
    IF text = <<>> THEN <<"">>
    ELSE LET rest == SplitLines(Tail(text))
         IN IF Head(text) = "\n" THEN <<"">> \o rest
            ELSE IF rest[1] = "" THEN <<Head(text)>> \o Tail(rest)
            ELSE <<Head(text) \o rest[1]>> \o Tail(rest)

\* ------------------------------------------------- save: the executions
\* The ways the steps of one save can fail
SaveFailures ==
    LET Count(f) == (IF f.summaryFails THEN 1 ELSE 0) + (IF f.revertFails THEN 1 ELSE 0)
                      + Cardinality(f.ignoreFails) + (IF f.addFails THEN 1 ELSE 0)
                      + (IF f.commitFails THEN 1 ELSE 0)
    IN {f \in [summaryFails : BOOLEAN, revertFails : BOOLEAN,
               ignoreFails : SUBSET Range(Paths), addFails : BOOLEAN,
               commitFails : BOOLEAN] : Count(f) <= MaxFailures}

\* The paths of the files that carry an action, in the order of the list
PathsMarked(files, action) ==
    LET Marked(item) == item.Action = action
        items == SelectSeq(files, Marked)
    IN [i \in 1..Len(items) |-> items[i].Path]

RECURSIVE IgnoreLoop(_, _, _, _)
\* for _, path := range toIgnore { AddToGitignore(path) }, returning at the
\* first error
IgnoreLoop(w, toIgnore, i, ignoreFails) ==
    IF i > Len(toIgnore) THEN [work |-> w, err |-> FALSE, calls |-> <<>>]
    ELSE LET a == AddToGitignore(w, toIgnore[i], toIgnore[i] \in ignoreFails)
             call == <<SaveCall("AddToGitignore", <<toIgnore[i]>>, ~a.err)>>
         IN IF a.err THEN [work |-> a.work, err |-> TRUE, calls |-> call]
            ELSE LET rest == IgnoreLoop(a.work, toIgnore, i + 1, ignoreFails)
                 IN [work |-> rest.work, err |-> rest.err, calls |-> call \o rest.calls]

\* doSave as it would be if the error of RevertFiles were dropped
doSaveKeepsGoing(w, message, files, f) ==
    LET toSave == PathsMarked(files, "Save")
        toRevert == PathsMarked(files, "Revert")
        toIgnore == PathsMarked(files, "Ignore")
        Result(w2, err, calls) ==
            [work |-> w2, Err |-> err, SavedCount |-> Len(toSave),
             RevertedCount |-> Len(toRevert), IgnoredCount |-> Len(toIgnore),
             files |-> files, calls |-> calls]
        rv == IF Len(toRevert) > 0 THEN RevertFiles(w, toRevert, f.revertFails)
              ELSE [work |-> w, err |-> FALSE]
        rvCalls == IF Len(toRevert) > 0
                   THEN <<SaveCall("RevertFiles", toRevert, ~rv.err)>> ELSE <<>>
        ig == IgnoreLoop(rv.work, toIgnore, 1, f.ignoreFails)
        staged == IF Len(toIgnore) > 0 THEN Append(toSave, GitignorePath) ELSE toSave
        ad == AddFiles(ig.work, staged, f.addFails)
        adCalls == <<SaveCall("AddFiles", staged, ~ad.err)>>
        cm == Commit(ad.work, message, f.commitFails)
        cmCalls == <<SaveCall("Commit", <<>>, ~cm.err)>>
    IN IF ig.err THEN Result(ig.work, "failed to add to .gitignore", rvCalls \o ig.calls)
       ELSE IF Len(toSave) = 0 THEN Result(ig.work, "", rvCalls \o ig.calls)
       ELSE IF ad.err
       THEN Result(ad.work, "failed to stage files", rvCalls \o ig.calls \o adCalls)
       ELSE IF cm.err
       THEN Result(cm.work, "failed to commit", rvCalls \o ig.calls \o adCalls \o cmCalls)
       ELSE Result(cm.work, "", rvCalls \o ig.calls \o adCalls \o cmCalls)

\* doSave as it would be if the ignore file were committed on its own when
\* nothing is marked Save
doSaveCommitsIgnores(w, message, files, f) ==
    LET toSave == PathsMarked(files, "Save")
        toRevert == PathsMarked(files, "Revert")
        toIgnore == PathsMarked(files, "Ignore")
        Result(w2, err, calls) ==
            [work |-> w2, Err |-> err, SavedCount |-> Len(toSave),
             RevertedCount |-> Len(toRevert), IgnoredCount |-> Len(toIgnore),
             files |-> files, calls |-> calls]
        rv == IF Len(toRevert) > 0 THEN RevertFiles(w, toRevert, f.revertFails)
              ELSE [work |-> w, err |-> FALSE]
        rvCalls == IF Len(toRevert) > 0
                   THEN <<SaveCall("RevertFiles", toRevert, ~rv.err)>> ELSE <<>>
        ig == IgnoreLoop(rv.work, toIgnore, 1, f.ignoreFails)
        staged == IF Len(toIgnore) > 0 THEN Append(toSave, GitignorePath) ELSE toSave
        ad == AddFiles(ig.work, staged, f.addFails)
        adCalls == <<SaveCall("AddFiles", staged, ~ad.err)>>
        cm == Commit(ad.work, message, f.commitFails)
        cmCalls == <<SaveCall("Commit", <<>>, ~cm.err)>>
    IN IF rv.err THEN Result(rv.work, "failed to revert files", rvCalls)
       ELSE IF ig.err THEN Result(ig.work, "failed to add to .gitignore", rvCalls \o ig.calls)
       ELSE IF Len(toSave) = 0 /\ Len(toIgnore) = 0 THEN Result(ig.work, "", rvCalls \o ig.calls)
       ELSE IF ad.err
       THEN Result(ad.work, "failed to stage files", rvCalls \o ig.calls \o adCalls)
       ELSE IF cm.err
       THEN Result(cm.work, "failed to commit", rvCalls \o ig.calls \o adCalls \o cmCalls)
       ELSE Result(cm.work, "", rvCalls \o ig.calls \o adCalls \o cmCalls)

\* doSave(message, files): revert, ignore, then stage and commit; the SaveMsg
doSave(w, message, files, f) ==
    LET toSave == PathsMarked(files, "Save")
        toRevert == PathsMarked(files, "Revert")
        toIgnore == PathsMarked(files, "Ignore")
        Result(w2, err, calls) ==
            [work |-> w2, Err |-> err, SavedCount |-> Len(toSave),
             RevertedCount |-> Len(toRevert), IgnoredCount |-> Len(toIgnore),
             files |-> files, calls |-> calls]
        rv == IF Len(toRevert) > 0 THEN RevertFiles(w, toRevert, f.revertFails)
              ELSE [work |-> w, err |-> FALSE]
        rvCalls == IF Len(toRevert) > 0
                   THEN <<SaveCall("RevertFiles", toRevert, ~rv.err)>> ELSE <<>>
        ig == IgnoreLoop(rv.work, toIgnore, 1, f.ignoreFails)
        staged == IF Len(toIgnore) > 0 THEN Append(toSave, GitignorePath) ELSE toSave
        ad == AddFiles(ig.work, staged, f.addFails)
        adCalls == <<SaveCall("AddFiles", staged, ~ad.err)>>
        cm == Commit(ad.work, message, f.commitFails)
        cmCalls == <<SaveCall("Commit", <<>>, ~cm.err)>>
    IN IF rv.err THEN Result(rv.work, "failed to revert files", rvCalls)
       ELSE IF ig.err THEN Result(ig.work, "failed to add to .gitignore", rvCalls \o ig.calls)
       ELSE IF Len(toSave) = 0 THEN Result(ig.work, "", rvCalls \o ig.calls)
       ELSE IF ad.err
       THEN Result(ad.work, "failed to stage files", rvCalls \o ig.calls \o adCalls)
       ELSE IF cm.err
       THEN Result(cm.work, "failed to commit", rvCalls \o ig.calls \o adCalls \o cmCalls)
       ELSE Result(cm.work, "", rvCalls \o ig.calls \o adCalls \o cmCalls)

\* doSaveV2(message, files): the same steps; the SaveV2Msg
doSaveV2(w, message, files, f) ==
    LET toSave == PathsMarked(files, "Save")
        toRevert == PathsMarked(files, "Revert")
        toIgnore == PathsMarked(files, "Ignore")
        Result(w2, err, calls) ==
            [work |-> w2, Err |-> err, SavedCount |-> Len(toSave),
             RevertedCount |-> Len(toRevert), IgnoredCount |-> Len(toIgnore),
             files |-> files, calls |-> calls]
        rv == IF Len(toRevert) > 0 THEN RevertFiles(w, toRevert, f.revertFails)
              ELSE [work |-> w, err |-> FALSE]
        rvCalls == IF Len(toRevert) > 0
                   THEN <<SaveCall("RevertFiles", toRevert, ~rv.err)>> ELSE <<>>
        ig == IgnoreLoop(rv.work, toIgnore, 1, f.ignoreFails)
        staged == IF Len(toIgnore) > 0 THEN Append(toSave, GitignorePath) ELSE toSave
        ad == AddFiles(ig.work, staged, f.addFails)
        adCalls == <<SaveCall("AddFiles", staged, ~ad.err)>>
        cm == Commit(ad.work, message, f.commitFails)
        cmCalls == <<SaveCall("Commit", <<>>, ~cm.err)>>
    IN IF rv.err THEN Result(rv.work, "failed to revert files", rvCalls)
       ELSE IF ig.err THEN Result(ig.work, "failed to add to .gitignore", rvCalls \o ig.calls)
       ELSE IF Len(toSave) = 0 THEN Result(ig.work, "", rvCalls \o ig.calls)
       ELSE IF ad.err
       THEN Result(ad.work, "failed to stage files", rvCalls \o ig.calls \o adCalls)
       ELSE IF cm.err
       THEN Result(cm.work, "failed to commit", rvCalls \o ig.calls \o adCalls \o cmCalls)
       ELSE Result(cm.work, "", rvCalls \o ig.calls \o adCalls \o cmCalls)

\* The action of doQuicksave as it would be if a file without a chosen action
\* were skipped
ActionForOrSkip(fileActions, path) ==
    IF \E i \in DOMAIN fileActions : fileActions[i].Path = path
    THEN LET i == CHOOSE j \in DOMAIN fileActions : fileActions[j].Path = path
         IN fileActions[i].Action
    ELSE "IgnoreOnce"

\* The action doQuicksave takes for a changed file: Save unless one was chosen
ActionFor(fileActions, path) ==
    IF \E i \in DOMAIN fileActions : fileActions[i].Path = path
    THEN LET i == CHOOSE j \in DOMAIN fileActions : fileActions[j].Path = path
         IN fileActions[i].Action
    ELSE "Save"

\* The commit message doQuicksave makes from the time
QuicksaveMessage == "Save <time>"

\* doQuicksave(fileActions): reads the changes, then the same steps; the
\* QuicksaveMsg
doQuicksave(w, fileActions, f) ==
    LET changes == GetChangeSummary(w)
        files == [i \in 1..Len(changes) |->
                     [Path |-> changes[i], Action |-> ActionFor(fileActions, changes[i])]]
        message == QuicksaveMessage
        Early(err) ==
            [work |-> w, Err |-> err, SavedCount |-> 0, RevertedCount |-> 0,
             IgnoredCount |-> 0, files |-> <<>>, calls |-> <<>>]
        toSave == PathsMarked(files, "Save")
        toRevert == PathsMarked(files, "Revert")
        toIgnore == PathsMarked(files, "Ignore")
        Result(w2, err, calls) ==
            [work |-> w2, Err |-> err, SavedCount |-> Len(toSave),
             RevertedCount |-> Len(toRevert), IgnoredCount |-> Len(toIgnore),
             files |-> files, calls |-> calls]
        rv == IF Len(toRevert) > 0 THEN RevertFiles(w, toRevert, f.revertFails)
              ELSE [work |-> w, err |-> FALSE]
        rvCalls == IF Len(toRevert) > 0
                   THEN <<SaveCall("RevertFiles", toRevert, ~rv.err)>> ELSE <<>>
        ig == IgnoreLoop(rv.work, toIgnore, 1, f.ignoreFails)
        staged == IF Len(toIgnore) > 0 THEN Append(toSave, GitignorePath) ELSE toSave
        ad == AddFiles(ig.work, staged, f.addFails)
        adCalls == <<SaveCall("AddFiles", staged, ~ad.err)>>
        cm == Commit(ad.work, message, f.commitFails)
        cmCalls == <<SaveCall("Commit", <<>>, ~cm.err)>>
    IN IF f.summaryFails THEN Early("status failed")
       ELSE IF Len(changes) = 0 THEN Early("no changes to save")
       ELSE IF rv.err THEN Result(rv.work, "failed to revert files", rvCalls)
       ELSE IF ig.err THEN Result(ig.work, "failed to add to .gitignore", rvCalls \o ig.calls)
       ELSE IF Len(toSave) = 0 THEN Result(ig.work, "", rvCalls \o ig.calls)
       ELSE IF ad.err
       THEN Result(ad.work, "failed to stage files", rvCalls \o ig.calls \o adCalls)
       ELSE IF cm.err
       THEN Result(cm.work, "failed to commit", rvCalls \o ig.calls \o adCalls \o cmCalls)
       ELSE Result(cm.work, "", rvCalls \o ig.calls \o adCalls \o cmCalls)

\* handleSave: POST /api/save {message, files}: stage the files, commit, and
\* push when auto-sync is on and a remote exists; the response
handleSave(w, method, bodyOk, message, files, f, pushFails) ==
    LET Response(w2, status, autoSynced, syncError, calls) ==
            [work |-> w2, status |-> status, autoSynced |-> autoSynced,
             syncError |-> syncError, calls |-> calls]
        ad == AddFiles(w, files, f.addFails)
        adCalls == IF Len(files) > 0 THEN <<SaveCall("AddFiles", files, ~ad.err)>> ELSE <<>>
        cm == Commit(ad.work, message, f.commitFails)
        cmCalls == <<SaveCall("Commit", <<>>, ~cm.err)>>
        cfg == Load
        ps == Push(cm.work, hasRemote, current, FALSE, pushFails)
        psCalls == <<SaveCall("Push", <<>>, ~ps.err)>>
    IN IF method # "POST" THEN Response(w, 405, FALSE, "", <<>>)
       ELSE IF ~bodyOk THEN Response(w, 400, FALSE, "", <<>>)
       ELSE IF ad.err THEN Response(ad.work, 500, FALSE, "", adCalls)
       ELSE IF cm.err THEN Response(cm.work, 500, FALSE, "", adCalls \o cmCalls)
       ELSE IF cfg.AutoSyncEnabled /\ hasRemote
       THEN Response(ps.work, 200, TRUE, IF ps.err THEN "push failed" ELSE "",
                     adCalls \o cmCalls \o psCalls)
       ELSE Response(cm.work, 200, FALSE, "", adCalls \o cmCalls)

\* ------------------------------------------------------- save: the TUI
\* What the last save execution was given and did, and the repository as it
\* found and left it; id tells the launched saves apart, given is the files
\* or file actions it was launched with, and shown tells whether its message
\* reached its screen
NoSaveOp ==
    [id |-> 0, kind |-> "none", given |-> <<>>, files |-> <<>>, calls |-> <<>>,
     err |-> "", shown |-> FALSE, pre |-> <<>>, post |-> <<>>]

\* The zero SaveModel that main.NewModel leaves in Model
ZeroSaveModel ==
    [variant |-> "SaveModel", state |-> "Review", files |-> <<>>, cursor |-> 0,
     focusOnFiles |-> FALSE, text |-> "", fileActions |-> <<>>, savedCount |-> 0,
     synced |-> FALSE, syncErr |-> "", err |-> ""]

\* The files of a new save screen: every change, marked Save
DefaultFiles(changes) ==
    [i \in 1..Len(changes) |-> [Path |-> changes[i], Action |-> "Save"]]

\* NewSaveModel
NewSaveModel ==
    LET changes == GetChangeSummary(work)
    IN [ZeroSaveModel EXCEPT !.state = IF Len(changes) = 0 THEN "NoChanges" ELSE "Review",
                             !.files = DefaultFiles(changes)]

\* NewSaveV2Model
NewSaveV2Model ==
    LET changes == GetChangeSummary(work)
    IN [ZeroSaveModel EXCEPT !.variant = "SaveV2Model",
                             !.state = IF Len(changes) = 0 THEN "NoChanges" ELSE "Review",
                             !.files = DefaultFiles(changes)]

\* NewQuicksaveModel(fileActions)
NewQuicksaveModel(fileActions) ==
    IF ~HasChanges(work)
    THEN [ZeroSaveModel EXCEPT !.variant = "QuicksaveModel", !.state = "NoChanges"]
    ELSE [ZeroSaveModel EXCEPT !.variant = "QuicksaveModel", !.state = "Saving",
                               !.fileActions = fileActions]

\* SaveModel.IsDone / SaveV2Model.IsDone / QuicksaveModel.IsDone
SaveIsDone == save.state \in {"Success", "Error", "NoChanges"}

\* hasFilesToSave / hasAnyAction
hasFilesToSave(m) == \E i \in DOMAIN m.files : m.files[i].Action = "Save"

hasAnyAction(m) == \E i \in DOMAIN m.files : m.files[i].Action # "IgnoreOnce"

\* cycleAction as it would be if Ignore led on to Revert
cycleActionSkipsSave(a) ==
    CASE a = "Save" -> "Revert"
      [] a = "Revert" -> "IgnoreOnce"
      [] a = "IgnoreOnce" -> "Ignore"
      [] a = "Ignore" -> "Revert"

\* cycleAction / cycleActionReverse
cycleAction(a) ==
    CASE a = "Save" -> "Revert"
      [] a = "Revert" -> "IgnoreOnce"
      [] a = "IgnoreOnce" -> "Ignore"
      [] a = "Ignore" -> "Save"

cycleActionReverse(a) ==
    CASE a = "Save" -> "Ignore"
      [] a = "Revert" -> "Save"
      [] a = "IgnoreOnce" -> "Revert"
      [] a = "Ignore" -> "IgnoreOnce"

\* Update(SaveMsg) as it would be if the push did not wait for saved files
SaveUpdateMsgAlwaysSyncs(m, msg) ==
    IF msg.Err # ""
    THEN [model |-> [m EXCEPT !.state = "Error", !.err = msg.Err], cmd |-> "none"]
    ELSE LET cfg == Load
         IN IF cfg.AutoSyncEnabled /\ hasRemote
            THEN [model |-> [m EXCEPT !.savedCount = msg.SavedCount, !.synced = TRUE,
                                      !.state = IF m.variant = "QuicksaveModel"
                                                THEN "Syncing" ELSE "AutoSyncing"],
                  cmd |-> "push"]
            ELSE [model |-> [m EXCEPT !.savedCount = msg.SavedCount, !.state = "Success"],
                  cmd |-> "none"]

\* Update(SaveMsg / SaveV2Msg / QuicksaveMsg): the counts are kept, and the
\* push is launched when auto-sync is on, a remote exists and files were saved
SaveUpdateMsg(m, msg) ==
    IF msg.Err # ""
    THEN [model |-> [m EXCEPT !.state = "Error", !.err = msg.Err,
                              !.savedCount = IF m.variant = "SaveV2Model"
                                             THEN msg.SavedCount ELSE @],
          cmd |-> "none"]
    ELSE LET cfg == Load
         IN IF cfg.AutoSyncEnabled /\ hasRemote /\ msg.SavedCount > 0
            THEN [model |-> [m EXCEPT !.savedCount = msg.SavedCount, !.synced = TRUE,
                                      !.state = IF m.variant = "QuicksaveModel"
                                                THEN "Syncing" ELSE "AutoSyncing"],
                  cmd |-> "push"]
            ELSE [model |-> [m EXCEPT !.savedCount = msg.SavedCount, !.state = "Success"],
                  cmd |-> "none"]

\* Update(SaveSyncMsg) as it would be if a push error were an error of the save
SaveUpdateSyncMsgFails(m, err) ==
    IF err # "" THEN [m EXCEPT !.err = err, !.state = "Error"]
    ELSE [m EXCEPT !.state = "Success"]

\* Update(SaveSyncMsg / AutoSyncV2Msg / QuicksaveSyncMsg)
SaveUpdateSyncMsg(m, err) == [m EXCEPT !.syncErr = err, !.state = "Success"]

\* The repository before any save: one edited file, and an ignore file whose
\* last line has no newline after it
InitWork ==
    [tree |-> [p \in Range(Paths) |-> p = "a.txt"], ignoreFile |-> <<"*.log">>,
     ignoreHead |-> <<"*.log">>, index |-> {}, history |-> <<>>, pushed |-> 0]

\* The repositories a save session starts in: the ignore file may have been
\* edited too
InitWorks ==
    {InitWork, [InitWork EXCEPT !.tree[GitignorePath] = TRUE,
                                !.ignoreFile = <<"*.log", "\n", "*.tmp">>]}

\* The save commands running, and how many saves were launched
NoSaving == [cmds |-> {}, launched |-> 0]

CanLaunch == saving.launched < MaxSaves /\ Cardinality(saving.cmds) < MaxInflight

Launch(kind, message, files) ==
    [cmds |-> saving.cmds \cup {[id |-> saving.launched + 1, kind |-> kind,
                                  message |-> message, files |-> files]},
     launched |-> saving.launched + 1]

restoreVars == <<mode, refs, current, now, branchSort, storedMaxBackups, restore, backups,
                 inflight, lastOp>>

\* The user edits a file, while a save can still be launched
Edit ==
    /\ saving.launched < MaxSaves
    /\ \E p \in Range(Paths) \ {GitignorePath} :
          /\ ~work.tree[p]
          /\ work' = [work EXCEPT !.tree[p] = TRUE]
    /\ UNCHANGED <<fileVars, expVars, menu, restoreVars, appState, storedAutoSync, hasRemote, save, saving, saveOp>>

\* main.Update: enter on the menu with "Save" selected.  The save screens are
\* entered while another save can be launched.
MenuEnterSave ==
    /\ mode = "tui" /\ appState = "menu" /\ CanLaunch
    /\ appState' = "save"
    /\ save' = NewSaveModel
    /\ saveOp' = NoSaveOp
    /\ UNCHANGED <<fileVars, expVars, menu, restoreVars, work, storedAutoSync, hasRemote, saving>>

\* main.Update: enter on the menu with "Save" selected while an earlier save
\* is still running
MenuEnterSaveInFlight ==
    /\ mode = "tui" /\ appState = "menu" /\ saving.cmds # {}
    /\ appState' = "save"
    /\ save' = NewSaveModel
    /\ saveOp' = NoSaveOp
    /\ UNCHANGED <<fileVars, expVars, menu, restoreVars, work, storedAutoSync, hasRemote, saving>>

\* SaveV2Model is entered the way SaveModel is
MenuEnterSaveV2 ==
    /\ mode = "tui" /\ appState = "menu" /\ CanLaunch
    /\ appState' = "save"
    /\ save' = NewSaveV2Model
    /\ saveOp' = NoSaveOp
    /\ UNCHANGED <<fileVars, expVars, menu, restoreVars, work, storedAutoSync, hasRemote, saving>>

\* The actions a caller can hand NewQuicksaveModel: one for some of the files
FileActionChoices ==
    LET changes == GetChangeSummary(work)
        AsList(c) == LET Has(p) == c[p] # "none"
                         ps == SelectSeq(changes, Has)
                     IN [i \in 1..Len(ps) |-> [Path |-> ps[i], Action |-> c[ps[i]]]]
    IN {AsList(c) : c \in [Range(Paths) -> FileActions \cup {"none"}]}

\* QuicksaveModel is entered with the file actions chosen, and its Init
\* launches doQuicksave
MenuEnterQuicksave ==
    /\ mode = "tui" /\ appState = "menu" /\ CanLaunch
    /\ appState' = "save"
    /\ \E fileActions \in FileActionChoices :
          /\ save' = NewQuicksaveModel(fileActions)
          /\ saving' = IF HasChanges(work) THEN Launch("doQuicksave", "", fileActions)
                        ELSE saving
    /\ saveOp' = NoSaveOp
    /\ UNCHANGED <<fileVars, expVars, menu, restoreVars, work, storedAutoSync, hasRemote>>

\* main.Update: esc leaves the save screen, whatever it is doing
SaveEsc ==
    /\ appState = "save"
    /\ appState' = "menu"
    /\ save' = ZeroSaveModel
    /\ saveOp' = NoSaveOp
    /\ menu' = RefreshStatus(menu, work)
    /\ UNCHANGED <<fileVars, expVars, restoreVars, work, storedAutoSync, hasRemote, saving>>

\* main.Update: any key on a save screen that is done goes back to the menu
SaveAnyKeyWhenDone ==
    /\ appState = "save" /\ SaveIsDone
    /\ appState' = "menu"
    /\ save' = ZeroSaveModel
    /\ saveOp' = NoSaveOp
    /\ menu' = RefreshStatus(menu, work)
    /\ UNCHANGED <<fileVars, expVars, restoreVars, work, storedAutoSync, hasRemote, saving>>

\* MenuModel.Update(tickMsg), which main.Update hands to the menu while it shows
MenuTick ==
    /\ mode = "tui" /\ appState = "menu"
    /\ menu' = MenuUpdateTick(menu, work)
    /\ UNCHANGED <<fileVars, expVars, restoreVars, saveVars, appState>>

\* MenuModel.Update(KeyMsg): right moves the focus to the changed files when
\* there are some (the terminal is wide enough to show them), left moves it back
MenuKeyFocus ==
    /\ mode = "tui" /\ appState = "menu"
    /\ \/ menu.focusRight /\ menu' = [menu EXCEPT !.focusRight = FALSE]
       \/ /\ ~menu.focusRight /\ Len(menu.changedFiles) > 0
          /\ menu' = [menu EXCEPT !.focusRight = TRUE]
    /\ UNCHANGED <<fileVars, expVars, restoreVars, saveVars, appState>>

\* MenuModel.Update(KeyMsg): up and down move over the changed files
MenuKeyFileCursor ==
    /\ mode = "tui" /\ appState = "menu" /\ menu.focusRight /\ Len(menu.changedFiles) > 0
    /\ \/ /\ menu.fileCursor > 0
          /\ menu' = [menu EXCEPT !.fileCursor = @ - 1]
       \/ /\ menu.fileCursor < Len(menu.changedFiles) - 1
          /\ menu' = [menu EXCEPT !.fileCursor = @ + 1]
    /\ UNCHANGED <<fileVars, expVars, restoreVars, saveVars, appState>>

\* The keys that act on the file under the cursor of a screen
FileKeys(variant) ==
    IF variant = "SaveV2Model"
    THEN {" ", "tab", "right", "left", "shift+tab", "1", "2", "3", "4"}
    ELSE {" ", "1", "2", "3", "4"}

\* MenuModel.Update(KeyMsg): space cycles the action of the file under the
\* cursor, and 1, 2, 3, 4 set it
MenuUpdateFileKey(m, key) ==
    LET filePath == m.changedFiles[m.fileCursor + 1]
        to == CASE key = "1" -> "Save"
                [] key = "2" -> "Revert"
                [] key = "3" -> "IgnoreOnce"
                [] key = "4" -> "Ignore"
                [] key = " " -> cycleFileAction(MapGet(m.fileActions, filePath))
    IN [m EXCEPT !.fileActions[filePath] = to]

\* A key of the file list reaches the menu
MenuKeyFile(key) ==
    /\ mode = "tui" /\ appState = "menu" /\ menu.focusRight /\ Len(menu.changedFiles) > 0
    /\ menu' = MenuUpdateFileKey(menu, key)

MenuKeyAction ==
    /\ \E key \in FileKeys("MenuModel") : MenuKeyFile(key)
    /\ UNCHANGED <<fileVars, expVars, restoreVars, saveVars, appState>>

Main == <<"main">>

Dev == <<"dev">>

Init ==
    /\ mode \in {"tui", "web"}
    /\ current = Main
    /\ refs = (Br(Main) :> NumCommits) @@ (Br(Dev) :> 1) @@ (BackupName(Dev, 1) :> 1)
                 @@ (BackupName(Main, 1) :> 1)
    /\ now = 2
    /\ branchSort \in {"refname", "-committerdate"}
    /\ storedMaxBackups \in {0, MaxStoredBackups}
    /\ appState = "menu"
    /\ restore = ZeroRestoreModel
    /\ backups = ZeroBackupsModel
    /\ inflight = {}
    /\ lastOp = NoOp
    /\ work = InitWork
    /\ storedAutoSync = FALSE
    /\ hasRemote = FALSE
    /\ save = ZeroSaveModel
    /\ saving = NoSaving
    /\ saveOp = NoSaveOp
    /\ graph = LinearHistory
    /\ merging = FALSE
    /\ stash = <<>>
    /\ experiments = ZeroExperimentsModel
    /\ worktree = <<>>
    /\ subjects = PlainSubjects
    /\ configFile = StoredConfig
    /\ menu = NewMenuModel(InitWork)

Next ==
    \/ Tick
    \/ MenuEnterRestore
    \/ MenuEnterBackups
    \/ Esc
    \/ AnyKeyWhenDone
    \/ RestoreKeyList
    \/ RestoreKeyNo
    \/ RestoreKeyYes
    \/ BackupsKeyList
    \/ BackupsKeyNo
    \/ BackupsKeyYes
    \/ RunRestoreCmd
    \/ RunRestoreBackupCmd
    \/ WebRestore
    \/ WebRestoreBackup

Spec == Init /\ [][Next]_vars

\* ------------------------------------------------- restore: the properties
\* The operations that restore the branch to a commit of its history
RestoreToCommit == {"doRestore", "doRevert", "handleRestore"}

\* The positions of the trace of the last operation that call op
CallsOf(op) == {i \in DOMAIN lastOp.calls : lastOp.calls[i].op = op}

\* C1: in a restore to a commit (the TUI's doRestore and doRevert, the web
\* server's handleRestore) ResetHard is called only after CreateBackup has
\* succeeded in the same operation; when CreateBackup fails the operation
\* returns an error, ResetHard is not called, and the branches and HEAD are
\* as the operation found them.
BackupBeforeReset ==
    lastOp.kind \in RestoreToCommit =>
       /\ \A i \in CallsOf("ResetHard") :
             \E j \in CallsOf("CreateBackup") : j < i /\ lastOp.calls[j].ok
       /\ (\E j \in CallsOf("CreateBackup") : ~lastOp.calls[j].ok) =>
             /\ lastOp.err # ""
             /\ CallsOf("ResetHard") = {}
             /\ refs = lastOp.preRefs

\* A restore to a commit whose CreateBackup failed has run
BackupFailedSeen ==
    /\ lastOp.kind \in RestoreToCommit
    /\ \E j \in CallsOf("CreateBackup") : ~lastOp.calls[j].ok
    /\ \E n \in DOMAIN refs : HasPrefix(n, BackupPrefix(current))

\* C2: every ResetHard that any operation carries out, restoring from a
\* backup included, comes after the creation, in the same operation, of a
\* backup branch that points at the HEAD the operation found.
EveryResetHasBackup ==
    \A i \in CallsOf("ResetHard") :
       lastOp.calls[i].ok =>
          \E j \in CallsOf("CreateBackup") :
             /\ j < i
             /\ lastOp.calls[j].ok
             /\ lastOp.calls[j].commit = lastOp.preHead

\* C3: when a restore to a commit reports success, the backup it names is a
\* branch that exists afterwards, is a backup of the branch that was current,
\* and points at the commit that was HEAD just before the reset.
ReportedBackupExists ==
    (lastOp.kind \in RestoreToCommit /\ lastOp.err = "") =>
       /\ lastOp.backup \in DOMAIN refs
       /\ HasPrefix(lastOp.backup, BackupPrefix(current))
       /\ refs[lastOp.backup] = lastOp.preHead

\* The backups that the last operation listed, those it chose to delete, and
\* those it did delete
Chosen == {lastOp.calls[i].name : i \in CallsOf("DeleteBackup")}

Deleted == {lastOp.calls[i].name : i \in {k \in CallsOf("DeleteBackup") : lastOp.calls[k].ok}}

Listed ==
    UNION {Range(lastOp.calls[i].listed) : i \in CallsOf("ListBackups")}

\* C4: with count backups listed, TrimBackups(forBranch, maxCount) deletes at
\* most count - maxCount of them (none when count <= maxCount), and every
\* backup it deletes is older than every backup it keeps (a backup whose
\* deletion was tried and failed counts as neither).
TrimDeletesOldest ==
    lastOp.kind \in RestoreToCommit =>
       LET count == Cardinality(Listed)
           maxCount == Load.MaxBackups
       IN /\ Deleted \subseteq Listed
          /\ Cardinality(Deleted) <= (IF count <= maxCount THEN 0 ELSE count - maxCount)
          /\ \A d \in Deleted, k \in Listed \ Chosen : TimestampLess(d, k)

\* C5: a deletion that fails inside TrimBackups does not stop it: deletion is
\* attempted for every listed backup beyond the limit, and TrimBackups
\* returns no error on account of a failed deletion.
TrimContinuesAfterFailure ==
    lastOp.kind \in RestoreToCommit =>
       \A i \in CallsOf("ListBackups") :
          lastOp.calls[i].ok =>
             LET listed == lastOp.calls[i].listed
                 beyond == {listed[k] : k \in (Load.MaxBackups + 1)..Len(listed)}
             IN /\ {lastOp.calls[k].name : k \in CallsOf("DeleteBackup")} = beyond
                /\ \E k \in CallsOf("TrimBackups") : lastOp.calls[k].ok

\* A deletion failed and a later backup was deleted all the same
DeletionFailedSeen ==
    /\ lastOp.kind \in RestoreToCommit
    /\ \E i, k \in CallsOf("DeleteBackup") :
          /\ i < k
          /\ ~lastOp.calls[i].ok
          /\ lastOp.calls[k].ok
          /\ lastOp.calls[k].name \notin DOMAIN refs

\* A sequence of backup names runs from the newest to the oldest
NewestFirst(names) ==
    \A i, j \in DOMAIN names : i < j => TimestampLess(names[j], names[i])

\* C6: ListBackups returns the backups of a branch newest first by their
\* timestamp suffix, in whatever order git lists the branches; seen in what
\* TrimBackups is given and in what the backups screen shows.
ListBackupsNewestFirst ==
    /\ \A i \in CallsOf("ListBackups") : NewestFirst(lastOp.calls[i].listed)
    /\ appState = "backups" =>
          NewestFirst([i \in DOMAIN backups.backups |-> backups.backups[i].Name])

\* --------------------------------------------------- save: keys and commands
inReview == appState = "save" /\ save.state = "Review"

\* SaveModel.Update(KeyMsg): right and left move the focus between the panels
SaveKeyFocus ==
    /\ inReview /\ save.variant = "SaveModel"
    /\ save' = [save EXCEPT !.focusOnFiles = ~@]
    /\ UNCHANGED <<fileVars, expVars, menu, restoreVars, appState, work, storedAutoSync, hasRemote, saving, saveOp>>

\* Update(KeyMsg): up and down move the cursor over the files
SaveKeyCursor ==
    /\ inReview
    /\ save.variant = "SaveV2Model" \/ (save.variant = "SaveModel" /\ save.focusOnFiles)
    /\ \/ /\ save.cursor > 0
          /\ save' = [save EXCEPT !.cursor = @ - 1]
       \/ /\ save.cursor < Len(save.files) - 1
          /\ save' = [save EXCEPT !.cursor = @ + 1]
    /\ UNCHANGED <<fileVars, expVars, menu, restoreVars, appState, work, storedAutoSync, hasRemote, saving, saveOp>>

\* Update(KeyMsg), the keys of the file list: space cycles the action of the
\* file under the cursor (in SaveV2Model right and tab do too, left and
\* shift+tab cycle back), and 1, 2, 3, 4 set it
SaveUpdateFileKey(m, key) ==
    LET i == m.cursor + 1
        a == m.files[i].Action
        to == CASE key = "1" -> "Save"
                [] key = "2" -> "Revert"
                [] key = "3" -> "IgnoreOnce"
                [] key = "4" -> "Ignore"
                [] key \in {" ", "tab", "right"} -> cycleAction(a)
                [] key \in {"left", "shift+tab"} -> cycleActionReverse(a)
    IN [m EXCEPT !.files[i].Action = to]

\* A key of the file list reaches the save screen
SaveKeyFile(key) ==
    /\ inReview
    /\ save.variant = "SaveV2Model" \/ (save.variant = "SaveModel" /\ save.focusOnFiles)
    /\ key \in FileKeys(save.variant)
    /\ save' = SaveUpdateFileKey(save, key)

SaveKeyAction ==
    /\ \E key \in FileKeys("SaveV2Model") : SaveKeyFile(key)
    /\ UNCHANGED <<fileVars, expVars, menu, restoreVars, appState, work, storedAutoSync, hasRemote, saving, saveOp>>

\* Update(KeyMsg): other keys go to the text input when it has the focus
SaveKeyType ==
    /\ appState = "save"
    /\ \/ save.variant = "SaveModel" /\ save.state = "Review" /\ ~save.focusOnFiles
       \/ save.variant = "SaveV2Model" /\ save.state = "Input"
    /\ \E text \in {"", "message"} : save' = [save EXCEPT !.text = text]
    /\ UNCHANGED <<fileVars, expVars, menu, restoreVars, appState, work, storedAutoSync, hasRemote, saving, saveOp>>

\* SaveModel.Update(KeyMsg): enter runs doSave once a message is typed
SaveKeyEnter ==
    /\ inReview /\ save.variant = "SaveModel"
    /\ save.text # ""
    /\ CanLaunch
    /\ save' = [save EXCEPT !.state = "Executing"]
    /\ saving' = Launch("doSave", save.text, save.files)
    /\ UNCHANGED <<fileVars, expVars, menu, restoreVars, appState, work, storedAutoSync, hasRemote, saveOp>>

\* SaveV2Model.Update(KeyMsg): enter in the review asks for a message when
\* files are to be saved, and runs doSaveV2 at once when there are only
\* reverts and ignores; enter in the input runs it once a message is typed
SaveV2KeyEnter ==
    /\ appState = "save" /\ save.variant = "SaveV2Model"
    /\ \/ /\ save.state = "Review" /\ hasFilesToSave(save)
          /\ save' = [save EXCEPT !.state = "Input"]
          /\ UNCHANGED saving
       \/ /\ save.state = "Review" /\ ~hasFilesToSave(save) /\ hasAnyAction(save)
          /\ CanLaunch
          /\ save' = [save EXCEPT !.state = "Executing"]
          /\ saving' = Launch("doSaveV2", "", save.files)
       \/ /\ save.state = "Input" /\ save.text # ""
          /\ CanLaunch
          /\ save' = [save EXCEPT !.state = "Executing"]
          /\ saving' = Launch("doSaveV2", save.text, save.files)
    /\ UNCHANGED <<fileVars, expVars, menu, restoreVars, appState, work, storedAutoSync, hasRemote, saveOp>>

\* SaveV2Model.Update(KeyMsg): esc in the input goes back to the review
SaveV2KeyEsc ==
    /\ appState = "save" /\ save.variant = "SaveV2Model" /\ save.state = "Input"
    /\ save' = [save EXCEPT !.state = "Review"]
    /\ UNCHANGED <<fileVars, expVars, menu, restoreVars, appState, work, storedAutoSync, hasRemote, saving, saveOp>>

\* The screen a message of a save command is for
VariantOf(kind) ==
    CASE kind = "doSave" -> "SaveModel"
      [] kind = "doSaveV2" -> "SaveV2Model"
      [] kind = "doQuicksave" -> "QuicksaveModel"

\* A launched doSave / doSaveV2 / doQuicksave runs, and main.Update hands its
\* message to the save screen that is showing, which may launch the push
RunSaveCmd ==
    \E cmd \in saving.cmds, f \in SaveFailures :
       /\ cmd.kind # "push"
       /\ LET res == CASE cmd.kind = "doSave" -> doSave(work, cmd.message, cmd.files, f)
                      [] cmd.kind = "doSaveV2" -> doSaveV2(work, cmd.message, cmd.files, f)
                      [] cmd.kind = "doQuicksave" -> doQuicksave(work, cmd.files, f)
              shown == appState = "save" /\ save.variant = VariantOf(cmd.kind)
              upd == SaveUpdateMsg(save, res)
              pushes == shown /\ upd.cmd = "push"
          IN /\ work' = res.work
             /\ save' = IF shown THEN upd.model ELSE save
             /\ saving' = [saving EXCEPT !.cmds =
                              (@ \ {cmd}) \cup
                              (IF pushes
                               THEN {[id |-> cmd.id, kind |-> "push", message |-> "",
                                      files |-> <<>>, variant |-> VariantOf(cmd.kind)]}
                               ELSE {})]
             /\ saveOp' = [id |-> cmd.id, kind |-> cmd.kind, given |-> cmd.files,
                           files |-> res.files, calls |-> res.calls,
                           err |-> res.Err, shown |-> shown, pre |-> work,
                           post |-> res.work]
       /\ UNCHANGED <<fileVars, expVars, menu, restoreVars, appState, storedAutoSync, hasRemote>>

\* A launched push runs, as part of the save whose message launched it, and
\* its message is handed to the save screen that is showing
RunPushCmd ==
    \E cmd \in saving.cmds, fails \in BOOLEAN :
       /\ cmd.kind = "push"
       /\ LET res == Push(work, hasRemote, current, FALSE, fails)
          IN /\ work' = res.work
             /\ saveOp' = IF saveOp.id = cmd.id
                           THEN [saveOp EXCEPT
                                    !.calls = Append(@, SaveCall("Push", <<>>, ~res.err)),
                                    !.post = res.work]
                           ELSE saveOp
             /\ save' = IF appState = "save" /\ save.variant = cmd.variant
                        THEN SaveUpdateSyncMsg(save, IF res.err THEN "push failed" ELSE "")
                        ELSE save
       /\ saving' = [saving EXCEPT !.cmds = @ \ {cmd}]
       /\ UNCHANGED <<fileVars, expVars, menu, restoreVars, appState, storedAutoSync, hasRemote>>

\* What the web server did for the last /api/save and answered, and the
\* repository as it found and left it
WebSaveOp(res) ==
    [kind |-> "handleSave", calls |-> res.calls, status |-> res.status,
     autoSynced |-> res.autoSynced, syncError |-> res.syncError,
     pre |-> work, post |-> res.work]

\* The web server answers /api/save
WebSave ==
    /\ mode = "web"
    /\ saving.launched < MaxSaves
    /\ \E req \in Requests, message \in {"", "message"}, S \in SUBSET Range(Paths),
          f \in SaveFailures, pushFails \in BOOLEAN :
          /\ WellFormed(req) \/ (message = "" /\ S = {} /\ ~pushFails)
          /\ LET In(p) == p \in S
                 res == handleSave(work, req.method, req.bodyOk, message,
                                   SelectSeq(Paths, In), f, pushFails)
             IN /\ work' = res.work
                /\ lastOp' = WebSaveOp(res)
    /\ saving' = [saving EXCEPT !.launched = @ + 1]
    /\ UNCHANGED <<fileVars, expVars, menu, mode, refs, current, now, branchSort, storedMaxBackups, restore,
                   backups, inflight, appState, storedAutoSync, hasRemote, save, saveOp>>

InitSave ==
    /\ mode \in {"tui", "web"}
    /\ current = Main
    /\ refs = (Br(Main) :> NumCommits)
    /\ now = 1
    /\ branchSort = "refname"
    /\ storedMaxBackups = MaxStoredBackups
    /\ appState = "menu"
    /\ restore = ZeroRestoreModel
    /\ backups = ZeroBackupsModel
    /\ inflight = {}
    /\ lastOp = NoOp
    /\ work \in InitWorks
    /\ storedAutoSync \in BOOLEAN
    /\ hasRemote \in BOOLEAN
    /\ save = ZeroSaveModel
    /\ saving = NoSaving
    /\ saveOp = NoSaveOp
    /\ graph = LinearHistory
    /\ merging = FALSE
    /\ stash = <<>>
    /\ experiments = ZeroExperimentsModel
    /\ worktree = <<>>
    /\ subjects = PlainSubjects
    /\ configFile = StoredConfig
    /\ menu = NewMenuModel(work)

NextSave ==
    \/ Edit
    \/ MenuEnterSave
    \/ MenuEnterSaveV2
    \/ MenuEnterQuicksave
    \/ SaveEsc
    \/ SaveAnyKeyWhenDone
    \/ SaveKeyFocus
    \/ SaveKeyCursor
    \/ SaveKeyAction
    \/ SaveKeyType
    \/ SaveKeyEnter
    \/ SaveV2KeyEnter
    \/ SaveV2KeyEsc
    \/ RunSaveCmd
    \/ RunPushCmd
    \/ WebSave

SpecSave == InitSave /\ [][NextSave]_vars

\* The file actions the menu holds, as GetFileActions hands them to a caller
GetFileActions(m) ==
    LET Has(p) == m.fileActions[p] # "none"
        ps == SelectSeq(Paths, Has)
    IN [i \in 1..Len(ps) |-> [Path |-> ps[i], Action |-> m.fileActions[ps[i]]]]

\* QuicksaveModel is entered with the file actions of the menu, and its Init
\* launches doQuicksave
MenuEnterQuicksaveWithActions ==
    /\ mode = "tui" /\ appState = "menu" /\ CanLaunch
    /\ appState' = "save"
    /\ LET fileActions == GetFileActions(menu)
       IN /\ save' = NewQuicksaveModel(fileActions)
          /\ saving' = IF HasChanges(work) THEN Launch("doQuicksave", "", fileActions)
                        ELSE saving
    /\ saveOp' = NoSaveOp
    /\ UNCHANGED <<fileVars, expVars, menu, restoreVars, work, storedAutoSync, hasRemote>>

\* A session in the menu, without auto-sync
InitMenu ==
    /\ mode = "tui"
    /\ current = Main
    /\ refs = (Br(Main) :> NumCommits)
    /\ now = 1
    /\ branchSort = "refname"
    /\ storedMaxBackups = MaxStoredBackups
    /\ appState = "menu"
    /\ restore = ZeroRestoreModel
    /\ backups = ZeroBackupsModel
    /\ inflight = {}
    /\ lastOp = NoOp
    /\ work = InitWork
    /\ storedAutoSync = FALSE
    /\ hasRemote = FALSE
    /\ save = ZeroSaveModel
    /\ saving = NoSaving
    /\ saveOp = NoSaveOp
    /\ graph = LinearHistory
    /\ merging = FALSE
    /\ stash = <<>>
    /\ experiments = ZeroExperimentsModel
    /\ worktree = <<>>
    /\ subjects = PlainSubjects
    /\ configFile = StoredConfig
    /\ menu = NewMenuModel(work)

\* The menu with its changed files, the review it opens and the quicksave
NextMenu ==
    \/ Edit
    \/ MenuTick
    \/ MenuKeyFocus
    \/ MenuKeyFileCursor
    \/ MenuKeyAction
    \/ MenuEnterSave
    \/ MenuEnterQuicksaveWithActions
    \/ SaveEsc
    \/ SaveAnyKeyWhenDone
    \/ RunSaveCmd

SpecMenu == InitMenu /\ [][NextMenu]_vars

\* ---------------------------------------------------- save: the properties
\* The positions of the trace of the last save that call op
SaveCallsOf(op) == {i \in DOMAIN saveOp.calls : saveOp.calls[i].op = op}

\* The step a call belongs to
StepOf(op) ==
    CASE op = "RevertFiles" -> 1
      [] op = "AddToGitignore" -> 2
      [] op = "AddFiles" -> 3
      [] op = "Commit" -> 4
      [] op = "Push" -> 5

\* The paths that the calls of op in the last save were given
PathsGiven(op) == UNION {Range(saveOp.calls[i].paths) : i \in SaveCallsOf(op)}

MarkedIn(action) == Range(PathsMarked(saveOp.files, action))

\* C7: a save (doSave, doSaveV2, doQuicksave) takes its steps in the order
\* revert, ignore appends, stage, commit: a call comes only after the calls
\* before it succeeded, so nothing is called after a failure; RevertFiles is
\* called once at most; an append comes after the revert of every file marked
\* Revert; stage and commit come after the append of every file marked
\* Ignore, commit right after stage; and what an append wrote stays written
\* when a later step fails.
SaveStepsInOrder ==
    saveOp.kind # "none" =>
       LET c == saveOp.calls
       IN /\ \A i, j \in DOMAIN c :
                i < j => /\ c[i].ok
                         /\ \/ StepOf(c[i].op) < StepOf(c[j].op)
                            \/ c[i].op = "AddToGitignore" /\ c[j].op = "AddToGitignore"
          /\ SaveCallsOf("AddToGitignore") # {} => PathsGiven("RevertFiles") = MarkedIn("Revert")
          /\ SaveCallsOf("AddFiles") # {} =>
                /\ PathsGiven("RevertFiles") = MarkedIn("Revert")
                /\ PathsGiven("AddToGitignore") = MarkedIn("Ignore")
          /\ \A j \in SaveCallsOf("Commit") : j - 1 \in SaveCallsOf("AddFiles")
          /\ \A i \in SaveCallsOf("AddToGitignore") :
                c[i].ok => c[i].paths[1] \in Range(SplitLines(saveOp.post.ignoreFile))

\* A save whose append failed after another step had been applied, with steps
\* still to take
SaveFailedMidway ==
    /\ saveOp.kind # "none"
    /\ Len(saveOp.calls) >= 2
    /\ LET last == saveOp.calls[Len(saveOp.calls)]
       IN last.op = "AddToGitignore" /\ ~last.ok
    /\ saveOp.post # saveOp.pre
    /\ PathsGiven("AddToGitignore") # MarkedIn("Ignore") \/ MarkedIn("Save") # {}

\* C8: a save in which no file is marked Save calls neither the stage nor the
\* commit, whatever it reverted and ignored.
NoSaveNoCommit ==
    (saveOp.kind # "none" /\ MarkedIn("Save") = {}) =>
       /\ SaveCallsOf("AddFiles") = {}
       /\ SaveCallsOf("Commit") = {}
       /\ saveOp.post.history = saveOp.pre.history
       /\ saveOp.post.index \subseteq saveOp.pre.index

\* A save without a file marked Save reverted one file and ignored another
RevertedAndIgnoredOnly ==
    /\ saveOp.kind # "none" /\ saveOp.err = ""
    /\ MarkedIn("Save") = {}
    /\ \E i \in SaveCallsOf("RevertFiles") : saveOp.calls[i].ok
    /\ \E i \in SaveCallsOf("AddToGitignore") : saveOp.calls[i].ok

\* C9: a save in which every file is marked IgnoreOnce makes no call that
\* changes anything: no revert, no append to the ignore file, no stage, no
\* commit and no push; the working tree, the ignore file, the index and the
\* history are as it found them.
AllSkippedIsNoOp ==
    (saveOp.kind # "none" /\ saveOp.files # <<>>
       /\ \A i \in DOMAIN saveOp.files : saveOp.files[i].Action = "IgnoreOnce") =>
       /\ saveOp.calls = <<>>
       /\ saveOp.post = saveOp.pre

\* A save of two files, both marked IgnoreOnce, has run with auto-sync on
AllSkippedSeen ==
    /\ saveOp.kind \in {"doSave", "doQuicksave"}
    /\ Len(saveOp.files) >= 2
    /\ \A i \in DOMAIN saveOp.files : saveOp.files[i].Action = "IgnoreOnce"
    /\ storedAutoSync /\ hasRemote
    /\ saveOp.err = ""

\* The ignore file is staged with the saved files and is in the commit made
IgnoreFileCommitted ==
    /\ \E i \in SaveCallsOf("AddFiles") :
          saveOp.calls[i].ok /\ GitignorePath \in Range(saveOp.calls[i].paths)
    /\ Len(saveOp.post.history) = Len(saveOp.pre.history) + 1
    /\ GitignorePath \in saveOp.post.history[Len(saveOp.post.history)].files

\* Each path marked Ignore is a new line of the ignore file, as it is written,
\* after the lines the file had once the reverts were done
IgnoredPathsAppended ==
    LET before == IF GitignorePath \in MarkedIn("Revert")
                  THEN saveOp.pre.ignoreHead ELSE saveOp.pre.ignoreFile
    IN SplitLines(saveOp.post.ignoreFile)
          = SplitLines(before) \o PathsMarked(saveOp.files, "Ignore")

SaveCommitFiles ==
    IF Len(saveOp.post.history) > Len(saveOp.pre.history)
    THEN saveOp.post.history[Len(saveOp.post.history)].files
    ELSE {}

\* C11: a file marked IgnoreOnce is left out of every step of a save: its
\* path is given to no RevertFiles, AddToGitignore or AddFiles, the file is on
\* disk as the save found it, and it is not in the commit the save creates.
SkippedExcluded ==
    saveOp.kind # "none" =>
       \A p \in MarkedIn("IgnoreOnce") :
          /\ p \notin PathsGiven("RevertFiles") \cup PathsGiven("AddToGitignore")
                        \cup PathsGiven("AddFiles")
          /\ p = GitignorePath => saveOp.post.ignoreFile = saveOp.pre.ignoreFile
          /\ p \notin SaveCommitFiles

\* What the claim lets an execution start with: a file marked Save and a
\* message, or no file marked Save and a file with an action other than
\* IgnoreOnce
StartAllowed(m) ==
    \/ hasFilesToSave(m) /\ m.text # ""
    \/ ~hasFilesToSave(m) /\ hasAnyAction(m)

\* C12: a save screen that enter has taken from the review to the execution
\* has a file marked Save and a message, or no file marked Save and a file
\* that is not marked IgnoreOnce; with every file marked IgnoreOnce no
\* execution is started.
EnterStartsOnlyWhenAllowed ==
    (appState = "save" /\ save.state = "Executing") => StartAllowed(save)

\* The paths a list of files or file actions has an entry for
PathsOf(files) == {files[i].Path : i \in DOMAIN files}

\* C13: the menu as NewMenuModel makes it, and as RefreshStatus leaves it on
\* every return to the menu, has the action Save for every changed path; the
\* review that NewSaveModel opens lists every changed path with the action
\* Save; and doQuicksave gives a changed path without a recorded action the
\* action Save.
DefaultActionIsSave ==
    /\ \A p \in Range(GetChangeSummary(work)) : menu.fileActions[p] = "Save"
    /\ [][/\ (appState # "menu" /\ appState' = "menu") =>
              \A p \in Range(GetChangeSummary(work')) : menu'.fileActions[p] = "Save"
          /\ (appState = "menu" /\ appState' = "save" /\ save'.variant = "SaveModel") =>
              /\ [i \in DOMAIN save'.files |-> save'.files[i].Path] = GetChangeSummary(work')
              /\ \A i \in DOMAIN save'.files : save'.files[i].Action = "Save"
          /\ (saveOp' # saveOp /\ saveOp'.kind = "doQuicksave") =>
              \A i \in DOMAIN saveOp'.files :
                 saveOp'.files[i].Path \notin PathsOf(saveOp'.given) =>
                    saveOp'.files[i].Action = "Save"]_vars

\* A quicksave has committed a file for which no action was recorded, and the
\* menu, shown again, has Save for every file it lists
UnrecordedPathSaved ==
    /\ saveOp.kind = "doQuicksave" /\ saveOp.err = ""
    /\ \E i \in DOMAIN saveOp.files :
          /\ saveOp.files[i].Path \notin PathsOf(saveOp.given)
          /\ saveOp.files[i].Path \in SaveCommitFiles
    /\ appState = "menu"
    /\ \A p \in Range(menu.changedFiles) : menu.fileActions[p] = "Save"

\* Auto-sync is on in the configuration, a remote exists and files were saved
SyncWanted(saved) == Load.AutoSyncEnabled /\ hasRemote /\ saved > 0

\* The push of the save with this id is among the commands
PushLaunchedFor(id, cmds) == \E c \in cmds : c.kind = "push" /\ c.id = id

\* The files of the commit the last /api/save created
WebCommitFiles ==
    IF Len(lastOp.post.history) > Len(lastOp.pre.history)
    THEN lastOp.post.history[Len(lastOp.post.history)].files
    ELSE {}

\* The web handler pushes after a save that succeeded exactly when the sync
\* is wanted, and never after one that failed
WebSyncWhenWanted ==
    lastOp.kind = "handleSave" =>
       LET pushed == \E i \in DOMAIN lastOp.calls : lastOp.calls[i].op = "Push"
       IN IF lastOp.status = 200
          THEN /\ pushed <=> SyncWanted(Cardinality(WebCommitFiles))
               /\ lastOp.autoSynced <=> pushed
          ELSE ~pushed /\ ~lastOp.autoSynced

\* The step in which a save execution finishes
SaveFinishes == saveOp'.kind # "none" /\ saveOp'.id # saveOp.id

\* After that step the push is launched exactly when the sync is wanted, and
\* a save screen that shows is syncing when it is wanted and shows the
\* success when it is not
SyncStartsWhenWanted ==
    LET wanted == SyncWanted(Len(PathsMarked(saveOp'.files, "Save")))
    IN /\ PushLaunchedFor(saveOp'.id, saving'.cmds) <=> wanted
       /\ appState' = "save" =>
             save'.state = IF ~wanted THEN "Success"
                           ELSE IF save'.variant = "QuicksaveModel" THEN "Syncing"
                           ELSE "AutoSyncing"

\* A push is part of a save only when the sync was wanted
PushOnlyWhenWanted ==
    (saveOp.kind # "none" /\ SaveCallsOf("Push") # {}) =>
       saveOp.err = "" /\ SyncWanted(Cardinality(MarkedIn("Save")))

\* C14, as stated: after every save execution that succeeded, the flow is in
\* AutoSyncing with a push launched if auto-sync is on, a remote exists and a
\* file was saved, and is in Success with no push otherwise; the web handler
\* pushes under the same condition.
SyncExactlyWhenWanted ==
    /\ []WebSyncWhenWanted
    /\ []PushOnlyWhenWanted
    /\ [][(SaveFinishes /\ saveOp'.err = "") => SyncStartsWhenWanted]_vars

\* The last save pushed and the push failed
SavePushFailed == \E i \in SaveCallsOf("Push") : ~saveOp.calls[i].ok

\* C15: a push that fails after a save that succeeded does not make the save
\* a failure: the save screen shows the success, with the push error kept in
\* syncErr and no error of its own, and the web handler answers 200 with the
\* push error in syncError.
PushFailureKeepsSuccess ==
    /\ (saveOp.kind # "none" /\ SavePushFailed) =>
          /\ saveOp.err = ""
          /\ appState = "save" =>
                save.state = "Success" /\ save.syncErr # "" /\ save.err = ""
    /\ (lastOp.kind = "handleSave"
          /\ \E i \in DOMAIN lastOp.calls :
                lastOp.calls[i].op = "Push" /\ ~lastOp.calls[i].ok) =>
          lastOp.status = 200 /\ lastOp.autoSynced /\ lastOp.syncError # ""

\* A save screen shows the success of a save whose push failed
PushFailedSeen ==
    /\ saveOp.kind \in {"doSave", "doQuicksave"} /\ SavePushFailed
    /\ appState = "save" /\ save.state = "Success" /\ save.synced
    /\ Len(saveOp.post.history) > Len(saveOp.pre.history)

\* ------------------------------------------------ experiments: git commands
MaxCommits == 3       \* commits that saves may bring the repository to

\* The names a user gives to experiments
ExpNames == {"a", "b"}

\* time.Now().Format("20060102-150405")
FormatTime(t) == ToString(t)

\* fmt.Sprintf("experiment-%s-%s", name, timestamp)
ExperimentName(name, t) == <<"experiment", name, FormatTime(t)>>

\* strings.HasPrefix(b.Name, "experiment-")
IsExperiment(b) == Len(b.path) > 1 /\ b.path[1] = "experiment"

\* git branch --format=%(refname:short)|%(HEAD)
ListBranches(r, cur, sort, fails) ==
    LET lines == SortRefs(DOMAIN r, r, sort)
    IN IF fails THEN [branches |-> <<>>, err |-> TRUE]
       ELSE [branches |-> [i \in 1..Len(lines) |->
                              [Name |-> lines[i].path, IsCurrent |-> lines[i] = Br(cur)]],
             err |-> FALSE]

\* ListExperiments
ListExperiments(r, cur, sort, fails) ==
    LET lb == ListBranches(r, cur, sort, fails)
    IN IF lb.err THEN [branches |-> <<>>, err |-> TRUE]
       ELSE [branches |-> SelectSeq(lb.branches, LAMBDA b : IsExperiment([path |-> b.Name])),
             err |-> FALSE]

RECURSIVE FirstMain(_, _)
\* The loop of GetMainBranch over the listed branches, from the i-th on
FirstMain(branches, i) ==
    IF i > Len(branches) THEN <<"main">>
    ELSE IF branches[i].Name = <<"main">> THEN <<"main">>
    ELSE IF branches[i].Name = <<"master">> THEN <<"master">>
    ELSE FirstMain(branches, i + 1)

\* GetMainBranch
GetMainBranch(r, cur, sort, fails) ==
    LET lb == ListBranches(r, cur, sort, fails)
    IN IF lb.err THEN <<"main">> ELSE FirstMain(lb.branches, 1)

\* git check-ref-format: a branch name with a space in it is refused.  Of the
\* components branch names are made of, "my idea" is the one with a space.
CheckRefFormat(name) == \A i \in 1..Len(name) : name[i] # "my idea"

\* git checkout -b <name>: a new branch at HEAD, checked out; refuses an
\* existing name and a name that is not well formed.  On a branch without a
\* commit the new branch has none either.
CreateBranch(r, cur, name, fails) ==
    IF fails \/ Br(name) \in DOMAIN r \/ ~CheckRefFormat(name)
    THEN [refs |-> r, current |-> cur, err |-> TRUE]
    ELSE IF Br(cur) \notin DOMAIN r THEN [refs |-> r, current |-> name, err |-> FALSE]
    ELSE [refs |-> r @@ (Br(name) :> r[Br(cur)]), current |-> name, err |-> FALSE]

\* CreateExperiment
CreateExperiment(r, cur, name, t, fails) ==
    LET branchName == ExperimentName(name, t)
        cb == CreateBranch(r, cur, branchName, fails)
    IN [branchName |-> branchName, refs |-> cb.refs, current |-> cb.current, err |-> cb.err]

\* git checkout <name>: refuses a branch that is missing, and every branch
\* while the index holds a merge that is not concluded.  Uncommitted changes
\* are carried over, or make it fail.
SwitchBranch(r, cur, mg, name, fails) ==
    IF fails \/ Br(name) \notin DOMAIN r \/ mg
    THEN [current |-> cur, err |-> TRUE]
    ELSE [current |-> name, err |-> FALSE]

\* What git merge can come to
MergeOutcomes == {"ok", "conflict", "fails"}

\* git merge of the commit theirs into the checked-out branch at mine
MergeCommits(r, cur, g, mg, w, mine, theirs, outcome) ==
    IF theirs \in g[mine]
    THEN [refs |-> r, graph |-> g, merging |-> mg, work |-> w, err |-> FALSE]
    ELSE IF mine \in g[theirs]
    THEN [refs |-> [r EXCEPT ![Br(cur)] = theirs], graph |-> g, merging |-> mg, work |-> w,
          err |-> FALSE]
    ELSE IF outcome = "conflict"
    THEN [refs |-> r, graph |-> g, merging |-> TRUE,
          work |-> [w EXCEPT !.tree["a.txt"] = TRUE], err |-> TRUE]
    ELSE [refs |-> [r EXCEPT ![Br(cur)] = Cardinality(DOMAIN g) + 1],
          graph |-> g @@ ((Cardinality(DOMAIN g) + 1) :>
                             (g[mine] \cup g[theirs] \cup {Cardinality(DOMAIN g) + 1})),
          merging |-> mg, work |-> w, err |-> FALSE]

\* git merge <name> into the checked-out branch: nothing to do when the
\* branch is merged already, a fast-forward when HEAD is in its history, and
\* otherwise a merge commit, or conflicts that leave the merge in progress.
MergeBranch(r, cur, g, mg, w, name, outcome) ==
    IF outcome = "fails" \/ Br(name) \notin DOMAIN r \/ mg
    THEN [refs |-> r, graph |-> g, merging |-> mg, work |-> w, err |-> TRUE]
    ELSE MergeCommits(r, cur, g, mg, w, r[Br(cur)], r[Br(name)], outcome)

\* git stash: puts the uncommitted changes away; refuses during a merge that
\* is not concluded
Stash(w, st, mg, fails) ==
    IF fails \/ mg THEN [work |-> w, stash |-> st, err |-> TRUE]
    ELSE IF ~HasChanges(w) THEN [work |-> w, stash |-> st, err |-> FALSE]
    ELSE [work |-> [w EXCEPT !.tree = [p \in DOMAIN w.tree |-> FALSE], !.index = {}],
          stash |-> <<w.tree>> \o st, err |-> FALSE]

\* git stash pop: brings back the most recent entry; fails when there is
\* none, and keeps the entry when putting it back fails
StashPop(w, st, fails) ==
    IF fails \/ st = <<>> THEN [work |-> w, stash |-> st, err |-> TRUE]
    ELSE [work |-> [w EXCEPT !.tree = [p \in DOMAIN w.tree |-> w.tree[p] \/ st[1][p]]],
          stash |-> Tail(st), err |-> FALSE]

\* ------------------------------------------- experiments: the operations
\* The repository as the experiment operations see it
Repo(r, cur, g, mg, w, st) ==
    [refs |-> r, current |-> cur, graph |-> g, merging |-> mg, work |-> w, stash |-> st]

\* No git command of an experiment operation fails
NoExpFailures ==
    [currentFails |-> FALSE, listFails |-> FALSE, switchFails |-> FALSE, merge |-> "ok",
     backFails |-> FALSE, deleteFails |-> FALSE, stashFails |-> FALSE, popFails |-> FALSE]

\* The ways the git commands of one experiment operation can go
ExpFailures ==
    LET flags == {"currentFails", "listFails", "switchFails", "backFails", "deleteFails",
                  "stashFails", "popFails"}
        Count(f) == Cardinality({k \in flags : f[k]}) + (IF f.merge = "ok" THEN 0 ELSE 1)
    IN {f \in [currentFails : BOOLEAN, listFails : BOOLEAN, switchFails : BOOLEAN,
               merge : MergeOutcomes, backFails : BOOLEAN, deleteFails : BOOLEAN,
               stashFails : BOOLEAN, popFails : BOOLEAN] : Count(f) <= MaxFailures}

\* The ways an operation can go whose git commands are those that the flags
\* stand for
FailuresOf(flags) ==
    {f \in ExpFailures :
        /\ \A k \in (DOMAIN f) \ (flags \cup {"merge"}) : ~f[k]
        /\ "merge" \in flags \/ f.merge = "ok"}

KeepFailures == FailuresOf({"currentFails", "listFails", "switchFails", "merge", "backFails"})

AbandonFailures == FailuresOf({"currentFails", "listFails", "switchFails", "deleteFails"})

SwitchFailures == FailuresOf({"stashFails", "switchFails", "popFails"})

CreateFailures == FailuresOf({"switchFails"})

\* The ways a launched command can go
CmdFailures(kind) ==
    CASE kind = "doCreateExperiment" -> CreateFailures
      [] kind = "doKeepExperiment" -> KeepFailures
      [] kind = "doAbandonExperiment" -> AbandonFailures
      [] kind = "doSwitchExperiment" -> SwitchFailures
      [] OTHER -> {}

\* KeepExperiment once the merge has failed: the switch back, whose error is
\* dropped
KeepSwitchBack(rp, currentBranch, mb, back, calls) ==
    [repo |-> [rp EXCEPT !.current = back.current, !.merging = mb.merging, !.work = mb.work],
     err |-> TRUE,
     calls |-> Append(calls, Call("SwitchBranch", Br(currentBranch), 0, ~back.err))]

\* KeepExperiment as it would be if it deleted the branch it has merged
KeepMergeDeletes(rp, currentBranch, mainBranch, mb, f, calls) ==
    IF mb.err
    THEN KeepSwitchBack(rp, currentBranch, mb,
                        SwitchBranch(mb.refs, mainBranch, mb.merging, currentBranch,
                                     f.backFails),
                        Append(calls, Call("MergeBranch", Br(currentBranch), 0, FALSE)))
    ELSE [repo |-> [rp EXCEPT !.current = mainBranch,
                              !.refs = DeleteBranch(mb.refs, mainBranch, Br(currentBranch),
                                                    FALSE).refs,
                              !.graph = mb.graph],
          err |-> FALSE,
          calls |-> Append(calls, Call("MergeBranch", Br(currentBranch), 0, TRUE))]

\* KeepExperiment once main is checked out: the merge
KeepMerge(rp, currentBranch, mainBranch, mb, f, calls) ==
    IF mb.err
    THEN KeepSwitchBack(rp, currentBranch, mb,
                        SwitchBranch(mb.refs, mainBranch, mb.merging, currentBranch,
                                     f.backFails),
                        Append(calls, Call("MergeBranch", Br(currentBranch), 0, FALSE)))
    ELSE [repo |-> [rp EXCEPT !.current = mainBranch, !.refs = mb.refs, !.graph = mb.graph],
          err |-> FALSE,
          calls |-> Append(calls, Call("MergeBranch", Br(currentBranch), 0, TRUE))]

\* KeepExperiment from the switch to main on
KeepSwitch(rp, currentBranch, mainBranch, sw, f, calls) ==
    IF sw.err
    THEN [repo |-> rp, err |-> TRUE,
          calls |-> Append(calls, Call("SwitchBranch", Br(mainBranch), 0, FALSE))]
    ELSE KeepMerge(rp, currentBranch, mainBranch,
                   MergeBranch(rp.refs, sw.current, rp.graph, rp.merging, rp.work,
                               currentBranch, f.merge),
                   f, Append(calls, Call("SwitchBranch", Br(mainBranch), 0, TRUE)))

\* KeepExperiment with the branches it works on
KeepBranches(rp, currentBranch, mainBranch, f, calls) ==
    KeepSwitch(rp, currentBranch, mainBranch,
               SwitchBranch(rp.refs, rp.current, rp.merging, mainBranch, f.switchFails),
               f, calls)

\* KeepExperiment
KeepExperiment(rp, sort, f) ==
    IF f.currentFails
    THEN [repo |-> rp, err |-> TRUE, calls |-> <<Call("CurrentBranch", NoName, 0, FALSE)>>]
    ELSE KeepBranches(rp, CurrentBranch(rp.current),
                      GetMainBranch(rp.refs, rp.current, sort, f.listFails), f,
                      <<Call("CurrentBranch", NoName, 0, TRUE)>>)

\* AbandonExperiment once main is checked out: the deletion
AbandonDelete(rp, currentBranch, mainBranch, db, calls) ==
    [repo |-> [rp EXCEPT !.current = mainBranch, !.refs = db.refs],
     err |-> db.err,
     calls |-> Append(calls, Call("DeleteBranch", Br(currentBranch), 0, ~db.err))]

\* AbandonExperiment as it would be if it went on to delete after a switch
\* that failed
AbandonSwitchUnchecked(rp, currentBranch, mainBranch, sw, f, calls) ==
    AbandonDelete(rp, currentBranch, sw.current,
                  DeleteBranch(rp.refs, sw.current, Br(currentBranch), f.deleteFails),
                  Append(calls, Call("SwitchBranch", Br(mainBranch), 0, ~sw.err)))

\* AbandonExperiment from the switch to main on
AbandonSwitch(rp, currentBranch, mainBranch, sw, f, calls) ==
    IF sw.err
    THEN [repo |-> rp, err |-> TRUE,
          calls |-> Append(calls, Call("SwitchBranch", Br(mainBranch), 0, FALSE))]
    ELSE AbandonDelete(rp, currentBranch, mainBranch,
                       DeleteBranch(rp.refs, sw.current, Br(currentBranch), f.deleteFails),
                       Append(calls, Call("SwitchBranch", Br(mainBranch), 0, TRUE)))

\* AbandonExperiment with the branches it works on
AbandonBranches(rp, currentBranch, mainBranch, f, calls) ==
    AbandonSwitch(rp, currentBranch, mainBranch,
                  SwitchBranch(rp.refs, rp.current, rp.merging, mainBranch, f.switchFails),
                  f, calls)

\* AbandonExperiment
AbandonExperiment(rp, sort, f) ==
    IF f.currentFails
    THEN [repo |-> rp, err |-> TRUE, calls |-> <<Call("CurrentBranch", NoName, 0, FALSE)>>]
    ELSE AbandonBranches(rp, CurrentBranch(rp.current),
                         GetMainBranch(rp.refs, rp.current, sort, f.listFails), f,
                         <<Call("CurrentBranch", NoName, 0, TRUE)>>)

\* doCreateExperiment
doCreateExperiment(rp, name, t, f) ==
    LET ce == CreateExperiment(rp.refs, rp.current, name, t, f.switchFails)
    IN [repo |-> [rp EXCEPT !.refs = ce.refs, !.current = ce.current],
        Err |-> IF ce.err THEN "error" ELSE "",
        Message |-> IF ce.err THEN "" ELSE "Created experiment",
        calls |-> <<Call("CreateBranch", Br(ce.branchName), 0, ~ce.err)>>]

\* doKeepExperiment
doKeepExperiment(rp, sort, f) ==
    LET ke == KeepExperiment(rp, sort, f)
    IN [repo |-> ke.repo, Err |-> IF ke.err THEN "error" ELSE "",
        Message |-> IF ke.err THEN "" ELSE "Experiment merged into main!",
        calls |-> ke.calls]

\* doAbandonExperiment
doAbandonExperiment(rp, sort, f) ==
    LET ae == AbandonExperiment(rp, sort, f)
    IN [repo |-> ae.repo, Err |-> IF ae.err THEN "error" ELSE "",
        Message |-> IF ae.err THEN "" ELSE "Experiment abandoned. Back on main.",
        calls |-> ae.calls]

\* The checkout of a switch and the stash pop after it, as they would be if
\* the error of the pop were returned
SwitchPopChecked(rp, branchName, sw, pop, calls) ==
    IF sw.err
    THEN [repo |-> rp, err |-> TRUE,
          calls |-> Append(calls, Call("SwitchBranch", Br(branchName), 0, FALSE))]
    ELSE [repo |-> [rp EXCEPT !.current = sw.current, !.work = pop.work, !.stash = pop.stash],
          err |-> pop.err,
          calls |-> calls \o <<Call("SwitchBranch", Br(branchName), 0, TRUE),
                               Call("StashPop", NoName, 0, ~pop.err)>>]

\* The checkout of a switch and the stash pop after it, whose error is
\* dropped
SwitchPop(rp, branchName, sw, pop, calls) ==
    IF sw.err
    THEN [repo |-> rp, err |-> TRUE,
          calls |-> Append(calls, Call("SwitchBranch", Br(branchName), 0, FALSE))]
    ELSE [repo |-> [rp EXCEPT !.current = sw.current, !.work = pop.work, !.stash = pop.stash],
          err |-> FALSE,
          calls |-> calls \o <<Call("SwitchBranch", Br(branchName), 0, TRUE),
                               Call("StashPop", NoName, 0, ~pop.err)>>]

\* A switch from the checkout on
SwitchFrom(rp, branchName, f, calls) ==
    SwitchPop(rp, branchName,
              SwitchBranch(rp.refs, rp.current, rp.merging, branchName, f.switchFails),
              StashPop(rp.work, rp.stash, f.popFails), calls)

\* A switch whose stash has run
SwitchStashed(rp, branchName, st, f) ==
    IF st.err
    THEN [repo |-> rp, err |-> TRUE, calls |-> <<Call("Stash", NoName, 0, FALSE)>>]
    ELSE SwitchFrom([rp EXCEPT !.work = st.work, !.stash = st.stash], branchName, f,
                    <<Call("Stash", NoName, 0, TRUE)>>)

\* The steps of doSwitchExperiment, which handleSwitchExperiment repeats:
\* stash when there are changes, check out, pop the stash
StashSwitchPop(rp, branchName, f) ==
    IF HasChanges(rp.work)
    THEN SwitchStashed(rp, branchName, Stash(rp.work, rp.stash, rp.merging, f.stashFails), f)
    ELSE SwitchFrom(rp, branchName, f, <<>>)

\* doSwitchExperiment
doSwitchExperiment(rp, branchName, f) ==
    LET sp == StashSwitchPop(rp, branchName, f)
    IN [repo |-> sp.repo, Err |-> IF sp.err THEN "error" ELSE "",
        Message |-> IF sp.err THEN "" ELSE "Switched to", calls |-> sp.calls]

\* handleCreateExperiment
handleCreateExperiment(rp, method, bodyOk, name, t, f) ==
    IF method # "POST" THEN [repo |-> rp, status |-> 405, calls |-> <<>>]
    ELSE IF ~bodyOk THEN [repo |-> rp, status |-> 400, calls |-> <<>>]
    ELSE LET ce == CreateExperiment(rp.refs, rp.current, name, t, f.switchFails)
         IN [repo |-> [rp EXCEPT !.refs = ce.refs, !.current = ce.current],
             status |-> IF ce.err THEN 500 ELSE 200,
             calls |-> <<Call("CreateBranch", Br(ce.branchName), 0, ~ce.err)>>]

\* handleKeepExperiment
handleKeepExperiment(rp, sort, method, f) ==
    IF method # "POST" THEN [repo |-> rp, status |-> 405, calls |-> <<>>]
    ELSE IF HasChanges(rp.work) THEN [repo |-> rp, status |-> 400, calls |-> <<>>]
    ELSE LET ke == KeepExperiment(rp, sort, f)
         IN [repo |-> ke.repo, status |-> IF ke.err THEN 500 ELSE 200, calls |-> ke.calls]

\* handleAbandonExperiment
handleAbandonExperiment(rp, sort, method, f) ==
    IF method # "POST" THEN [repo |-> rp, status |-> 405, calls |-> <<>>]
    ELSE IF HasChanges(rp.work) THEN [repo |-> rp, status |-> 400, calls |-> <<>>]
    ELSE LET ae == AbandonExperiment(rp, sort, f)
         IN [repo |-> ae.repo, status |-> IF ae.err THEN 500 ELSE 200, calls |-> ae.calls]

\* handleSwitchExperiment
handleSwitchExperiment(rp, method, bodyOk, branch, f) ==
    IF method # "POST" THEN [repo |-> rp, status |-> 405, calls |-> <<>>]
    ELSE IF ~bodyOk THEN [repo |-> rp, status |-> 400, calls |-> <<>>]
    ELSE LET sp == StashSwitchPop(rp, branch, f)
         IN [repo |-> sp.repo, status |-> IF sp.err THEN 500 ELSE 200, calls |-> sp.calls]

\* ------------------------------------------------- experiments: the TUI
MaxStash == 2         \* entries in the stash

\* NewExperimentsModel
NewExperimentsModel(r, cur, sort, listFails) ==
    [state |-> "Menu", cursor |-> 0,
     experiments |-> ListExperiments(r, cur, sort, listFails).branches, expCursor |-> 0,
     currentBranch |-> CurrentBranch(cur), isOnMain |-> IsOnMain(cur),
     err |-> "", message |-> "", input |-> ""]

\* getMenuItems
getMenuItems(m) ==
    << [Action |-> "Start", Disabled |-> FALSE],
       [Action |-> "Keep", Disabled |-> m.isOnMain],
       [Action |-> "Abandon", Disabled |-> m.isOnMain],
       [Action |-> "Switch", Disabled |-> Len(m.experiments) = 0],
       [Action |-> "Back", Disabled |-> FALSE] >>

RECURSIVE CursorUp(_, _)
\* The loop of keys.Up: up to the nearest item that is not disabled
CursorUp(menuItems, cursor) ==
    IF cursor > 0
    THEN IF ~menuItems[cursor].Disabled THEN cursor - 1
         ELSE CursorUp(menuItems, cursor - 1)
    ELSE cursor

RECURSIVE CursorDown(_, _)
\* The loop of keys.Down
CursorDown(menuItems, cursor) ==
    IF cursor < Len(menuItems) - 1
    THEN IF ~menuItems[cursor + 2].Disabled THEN cursor + 1
         ELSE CursorDown(menuItems, cursor + 1)
    ELSE cursor

\* ExperimentsModel.IsDone
ExperimentsIsDone == experiments.state \in {"Success", "Error"}

\* ExperimentsModel.WantsBack
WantsBack(m) == m.state = "Menu" /\ getMenuItems(m)[m.cursor + 1].Action = "Back"

\* ExperimentsModel.Update(ExperimentsMsg)
ExperimentsUpdateMsg(m, msg, r, cur, sort, listFails) ==
    [m EXCEPT !.state = IF msg.Err # "" THEN "Error" ELSE "Success",
              !.err = IF msg.Err # "" THEN msg.Err ELSE @,
              !.message = IF msg.Err # "" THEN @ ELSE msg.Message,
              !.currentBranch = CurrentBranch(cur),
              !.isOnMain = IsOnMain(cur),
              !.experiments = ListExperiments(r, cur, sort, listFails).branches]

\* ------------------------------------------------ experiments: the steps
\* The repository as it is
TheRepo == Repo(refs, current, graph, merging, work, stash)

\* The repository becomes rp
BecomesRepo(rp) ==
    /\ refs' = rp.refs
    /\ current' = rp.current
    /\ graph' = rp.graph
    /\ merging' = rp.merging
    /\ work' = rp.work
    /\ stash' = rp.stash

\* What the last experiment operation was and did: its git commands in
\* order, its error, the HTTP status (0 for a TUI command), the branch it was
\* asked for, and the repository before and after it
ExpOp(kind, res, err, status, branch) ==
    [kind |-> kind, calls |-> res.calls, err |-> err, status |-> status, branch |-> branch,
     pre |-> TheRepo, post |-> res.repo]

\* The variables the experiment steps leave alone
expFrame == <<mode, now, branchSort, storedMaxBackups, restore, backups, storedAutoSync,
              hasRemote, save, saving, saveOp>>

\* An experiment operation can start: there is room for a stash entry
CanStartExp == Len(stash) < MaxStash

\* A save, by this program or another, commits the changes on the
\* checked-out branch
CommitOnBranch ==
    /\ HasChanges(work) /\ ~merging
    /\ Cardinality(DOMAIN graph) < MaxCommits
    /\ LET c == Cardinality(DOMAIN graph) + 1
       IN /\ graph' = graph @@ (c :> (graph[refs[Br(current)]] \cup {c}))
          /\ refs' = [refs EXCEPT ![Br(current)] = c]
    /\ work' = [work EXCEPT !.tree = [p \in DOMAIN work.tree |-> FALSE], !.index = {}]
    /\ UNCHANGED <<fileVars, expFrame, menu, appState, inflight, lastOp, current, merging, stash,
                   experiments>>

\* main.Update: enter on the menu with "Experiments (advanced)" selected,
\* which the menu lists when the configuration enables experiments
MenuEnterExperiments ==
    /\ mode = "tui" /\ appState = "menu"
    /\ \E listFails \in BOOLEAN :
          experiments' = NewExperimentsModel(refs, current, branchSort, listFails)
    /\ appState' = "experiments"
    /\ lastOp' = NoOp
    /\ UNCHANGED <<fileVars, expFrame, menu, inflight, refs, current, graph, merging, work, stash>>

\* main.Update: with "Back to main menu" under the cursor, the next message
\* of any kind leaves the experiments screen
ExpBack ==
    /\ appState = "experiments" /\ WantsBack(experiments)
    /\ appState' = "menu"
    /\ menu' = RefreshStatus(menu, work)
    /\ experiments' = ZeroExperimentsModel
    /\ lastOp' = NoOp
    /\ UNCHANGED <<fileVars, expFrame, inflight, refs, current, graph, merging, work, stash>>

\* main.Update: any key on an experiments screen that is done.  Which of the
\* two ways it goes is decided by ShouldReturnToMainMenu.
ExpAnyKeyWhenDone ==
    /\ appState = "experiments" /\ ExperimentsIsDone
    /\ \/ /\ appState' = "menu"
          /\ menu' = RefreshStatus(menu, work)
          /\ experiments' = ZeroExperimentsModel
       \/ /\ \E listFails \in BOOLEAN :
                experiments' = NewExperimentsModel(refs, current, branchSort, listFails)
          /\ UNCHANGED <<appState, menu>>
    /\ lastOp' = NoOp
    /\ UNCHANGED <<fileVars, expFrame, inflight, refs, current, graph, merging, work, stash>>

\* ExperimentsModel.Update(KeyMsg) in ExperimentsStateMenu: up, down, enter
ExpKeyMenu ==
    /\ appState = "experiments" /\ experiments.state = "Menu" /\ ~WantsBack(experiments)
    /\ LET menuItems == getMenuItems(experiments)
           item == menuItems[experiments.cursor + 1]
           Launch1(kind) == inflight' = inflight \cup
                               {[kind |-> kind, hash |-> 0, branch |-> <<>>, backup |-> NoName]}
       IN \/ /\ experiments' = [experiments EXCEPT !.cursor = CursorUp(menuItems, @)]
             /\ UNCHANGED inflight
          \/ /\ experiments' = [experiments EXCEPT !.cursor = CursorDown(menuItems, @)]
             /\ UNCHANGED inflight
          \/ /\ ~item.Disabled /\ item.Action = "Start"
             /\ experiments' = [experiments EXCEPT !.state = "NameInput"]
             /\ UNCHANGED inflight
          \/ /\ ~item.Disabled /\ item.Action = "Keep"
             /\ Cardinality(inflight) < MaxInflight /\ CanStartExp
             /\ experiments' = [experiments EXCEPT !.state = "Keeping"]
             /\ Launch1("doKeepExperiment")
          \/ /\ ~item.Disabled /\ item.Action = "Abandon"
             /\ Cardinality(inflight) < MaxInflight /\ CanStartExp
             /\ experiments' = [experiments EXCEPT !.state = "Abandoning"]
             /\ Launch1("doAbandonExperiment")
          \/ /\ ~item.Disabled /\ item.Action = "Switch"
             /\ experiments' = [experiments EXCEPT !.state = "SwitchList", !.expCursor = 0]
             /\ UNCHANGED inflight
    /\ UNCHANGED <<fileVars, expFrame, menu, appState, lastOp, refs, current, graph, merging, work,
                   stash>>

\* ExperimentsModel.Update(KeyMsg) in ExperimentsStateNameInput: a name is
\* typed, enter, esc
ExpKeyNameInput ==
    /\ appState = "experiments" /\ experiments.state = "NameInput"
    /\ \/ /\ \E name \in ExpNames : experiments' = [experiments EXCEPT !.input = name]
          /\ UNCHANGED inflight
       \/ /\ experiments.input # ""
          /\ Cardinality(inflight) < MaxInflight /\ CanStartExp
          /\ experiments' = [experiments EXCEPT !.state = "Creating"]
          /\ inflight' = inflight \cup
                {[kind |-> "doCreateExperiment", hash |-> 0,
                  branch |-> <<experiments.input>>, backup |-> NoName]}
       \/ /\ experiments' = [experiments EXCEPT !.state = "Menu", !.input = ""]
          /\ UNCHANGED inflight
    /\ UNCHANGED <<fileVars, expFrame, menu, appState, lastOp, refs, current, graph, merging, work,
                   stash>>

\* ExperimentsModel.Update(KeyMsg) in ExperimentsStateSwitchList: up, down,
\* enter, esc
ExpKeySwitchList ==
    /\ appState = "experiments" /\ experiments.state = "SwitchList"
    /\ \/ /\ experiments.expCursor > 0
          /\ experiments' = [experiments EXCEPT !.expCursor = @ - 1]
          /\ UNCHANGED inflight
       \/ /\ experiments.expCursor < Len(experiments.experiments) - 1
          /\ experiments' = [experiments EXCEPT !.expCursor = @ + 1]
          /\ UNCHANGED inflight
       \/ /\ Len(experiments.experiments) > 0
          /\ Cardinality(inflight) < MaxInflight /\ CanStartExp
          /\ experiments' = [experiments EXCEPT !.state = "Switching"]
          /\ inflight' = inflight \cup
                {[kind |-> "doSwitchExperiment", hash |-> 0,
                  branch |-> experiments.experiments[experiments.expCursor + 1].Name,
                  backup |-> NoName]}
       \/ /\ experiments' = [experiments EXCEPT !.state = "Menu"]
          /\ UNCHANGED inflight
    /\ UNCHANGED <<fileVars, expFrame, menu, appState, lastOp, refs, current, graph, merging, work,
                   stash>>

\* A launched experiments command runs, and main.Update hands its message to
\* the experiments screen
RunExpCmd ==
    \E cmd \in inflight, refreshFails \in BOOLEAN : \E f \in CmdFailures(cmd.kind) :
       /\ cmd.kind \in {"doCreateExperiment", "doKeepExperiment", "doAbandonExperiment",
                        "doSwitchExperiment"}
       /\ LET res == CASE cmd.kind = "doCreateExperiment" ->
                            doCreateExperiment(TheRepo, cmd.branch[1], now, f)
                       [] cmd.kind = "doKeepExperiment" ->
                            doKeepExperiment(TheRepo, branchSort, f)
                       [] cmd.kind = "doAbandonExperiment" ->
                            doAbandonExperiment(TheRepo, branchSort, f)
                       [] cmd.kind = "doSwitchExperiment" ->
                            doSwitchExperiment(TheRepo, cmd.branch, f)
          IN /\ BecomesRepo(res.repo)
             /\ experiments' = IF appState = "experiments"
                               THEN ExperimentsUpdateMsg(experiments, res, res.repo.refs,
                                                         res.repo.current, branchSort,
                                                         refreshFails)
                               ELSE experiments
             /\ lastOp' = ExpOp(cmd.kind, res, res.Err, 0, cmd.branch)
       /\ inflight' = inflight \ {cmd}
       /\ UNCHANGED <<fileVars, expFrame, menu, appState>>

\* The web server answers /api/experiment/create
WebCreateExperiment ==
    /\ mode = "web" /\ CanStartExp
    /\ \E req \in Requests, name \in ExpNames, f \in CreateFailures :
       /\ WellFormed(req) \/ (name = "a" /\ f = NoExpFailures)
       /\ LET res == handleCreateExperiment(TheRepo, req.method, req.bodyOk, name, now, f)
          IN /\ BecomesRepo(res.repo)
             /\ lastOp' = ExpOp("handleCreateExperiment", res,
                                IF res.status = 200 THEN "" ELSE "error", res.status,
                                <<name>>)
    /\ UNCHANGED <<fileVars, expFrame, menu, appState, inflight, experiments>>

\* The web server answers /api/experiment/keep, which reads no body
WebKeepExperiment ==
    /\ mode = "web" /\ CanStartExp
    /\ \E method \in {"GET", "POST"}, f \in KeepFailures :
       /\ method = "POST" \/ f = NoExpFailures
       /\ LET res == handleKeepExperiment(TheRepo, branchSort, method, f)
          IN /\ BecomesRepo(res.repo)
             /\ lastOp' = ExpOp("handleKeepExperiment", res,
                                IF res.status = 200 THEN "" ELSE "error", res.status, <<>>)
    /\ UNCHANGED <<fileVars, expFrame, menu, appState, inflight, experiments>>

\* The web server answers /api/experiment/abandon, which reads no body
WebAbandonExperiment ==
    /\ mode = "web" /\ CanStartExp
    /\ \E method \in {"GET", "POST"}, f \in AbandonFailures :
       /\ method = "POST" \/ f = NoExpFailures
       /\ LET res == handleAbandonExperiment(TheRepo, branchSort, method, f)
          IN /\ BecomesRepo(res.repo)
             /\ lastOp' = ExpOp("handleAbandonExperiment", res,
                                IF res.status = 200 THEN "" ELSE "error", res.status, <<>>)
    /\ UNCHANGED <<fileVars, expFrame, menu, appState, inflight, experiments>>

\* A branch that does not exist
NoSuchBranch == <<"experiment", "b", "5">>

\* The web server answers /api/experiment/switch; the branch asked for is
\* any branch, or one that does not exist
WebSwitchExperiment ==
    /\ mode = "web" /\ CanStartExp
    /\ \E req \in Requests, f \in SwitchFailures,
          branch \in {b.path : b \in DOMAIN refs} \cup {NoSuchBranch} :
       /\ WellFormed(req) \/ (branch = NoSuchBranch /\ f = NoExpFailures)
       /\ LET res == handleSwitchExperiment(TheRepo, req.method, req.bodyOk, branch, f)
          IN /\ BecomesRepo(res.repo)
             /\ lastOp' = ExpOp("handleSwitchExperiment", res,
                                IF res.status = 200 THEN "" ELSE "error", res.status, branch)
    /\ UNCHANGED <<fileVars, expFrame, menu, appState, inflight, experiments>>

\* The repositories an experiments session starts in: the main branch alone,
\* or an experiment checked out that the main branch has moved on from
InitRepos ==
    LET clean == [InitWork EXCEPT !.tree = [p \in Range(Paths) |-> FALSE]]
        a == ExperimentName("a", 1)
    IN {Repo(Br(Main) :> 1, Main, 1 :> {1}, FALSE, w, <<>>) : w \in {clean, InitWork}}
         \cup
       {Repo(Br(Main) :> 3 @@ Br(a) :> 2, a, 1 :> {1} @@ 2 :> {1, 2} @@ 3 :> {1, 3},
             FALSE, w, <<>>) : w \in {clean, InitWork}}

\* A session with experiments
InitExp ==
    /\ mode \in {"tui", "web"}
    /\ \E rp \in InitRepos :
          /\ refs = rp.refs
          /\ current = rp.current
          /\ graph = rp.graph
          /\ merging = rp.merging
          /\ work = rp.work
          /\ stash = rp.stash
    /\ now = 1
    /\ branchSort = "refname"
    /\ storedMaxBackups = MaxStoredBackups
    /\ appState = "menu"
    /\ restore = ZeroRestoreModel
    /\ backups = ZeroBackupsModel
    /\ inflight = {}
    /\ lastOp = NoOp
    /\ storedAutoSync = FALSE
    /\ hasRemote = FALSE
    /\ save = ZeroSaveModel
    /\ saving = NoSaving
    /\ saveOp = NoSaveOp
    /\ experiments = ZeroExperimentsModel
    /\ worktree = <<>>
    /\ subjects = PlainSubjects
    /\ configFile = StoredConfig
    /\ menu = NewMenuModel(work)

\* The experiments screen, the experiment requests, and the saves made
\* meanwhile
NextExp ==
    \/ CommitOnBranch
    \/ MenuEnterExperiments
    \/ ExpBack
    \/ ExpAnyKeyWhenDone
    \/ ExpKeyMenu
    \/ ExpKeyNameInput
    \/ ExpKeySwitchList
    \/ RunExpCmd
    \/ WebCreateExperiment
    \/ WebKeepExperiment
    \/ WebAbandonExperiment
    \/ WebSwitchExperiment

SpecExp == InitExp /\ [][NextExp]_vars

\* ------------------------------------------- experiments: the properties
\* The last operation ran KeepExperiment
KeepRan ==
    /\ lastOp.kind \in {"doKeepExperiment", "handleKeepExperiment"}
    /\ lastOp.calls # <<>>

\* C16: when KeepExperiment returns an error, the branch checked out is the
\* one that was checked out when it was called, and no merge is left in
\* progress.
KeepFailureRestores ==
    (KeepRan /\ lastOp.err # "") =>
        /\ lastOp.post.current = lastOp.pre.current
        /\ ~lastOp.post.merging

\* The last operation was a caller of KeepExperiment or AbandonExperiment:
\* the command of the experiments menu, or the web handler
KeepOrAbandonAsked ==
    lastOp.kind \in {"doKeepExperiment", "handleKeepExperiment", "doAbandonExperiment",
                     "handleAbandonExperiment"}

\* C17: a caller of KeepExperiment or AbandonExperiment that finds
\* uncommitted changes refuses with an error, runs no git command and leaves
\* the repository as it was.
NoKeepOrAbandonWithChanges ==
    (KeepOrAbandonAsked /\ HasChanges(lastOp.pre.work)) =>
        /\ lastOp.calls = <<>>
        /\ lastOp.err # ""
        /\ lastOp.post = lastOp.pre

\* The history of a branch of a repository
HistoryOf(rp, branch) == rp.graph[rp.refs[Br(branch)]]

\* C18: KeepExperiment deletes no branch, whether it succeeds or fails: the
\* branch it was called on still exists.  When it succeeds, main is checked
\* out and holds the history of that branch.
KeepDeletesNothing ==
    KeepRan =>
        /\ DOMAIN lastOp.pre.refs \subseteq DOMAIN lastOp.post.refs
        /\ Br(lastOp.pre.current) \in DOMAIN lastOp.post.refs
        /\ lastOp.err = "" =>
              /\ IsOnMain(lastOp.post.current)
              /\ HistoryOf(lastOp.post, lastOp.pre.current)
                    \subseteq HistoryOf(lastOp.post, lastOp.post.current)

\* An experiment that main had moved on from was kept, with a merge commit
KeptWithMergeCommit ==
    /\ KeepRan /\ lastOp.err = ""
    /\ IsExperiment(Br(lastOp.pre.current))
    /\ ~(HistoryOf(lastOp.pre, lastOp.pre.current) \subseteq HistoryOf(lastOp.pre, Main))
    /\ ~(HistoryOf(lastOp.pre, Main) \subseteq HistoryOf(lastOp.pre, lastOp.pre.current))
    /\ Br(lastOp.pre.current) \in DOMAIN refs

\* The last operation ran AbandonExperiment
AbandonRan ==
    /\ lastOp.kind \in {"doAbandonExperiment", "handleAbandonExperiment"}
    /\ lastOp.calls # <<>>

\* The calls of the last operation that are calls of op
ExpCallsOf(op) == {i \in 1..Len(lastOp.calls) : lastOp.calls[i].op = op}

\* C19: AbandonExperiment deletes only after a switch to main that
\* succeeded, and deletes the branch it was called on: after a success main
\* is checked out and that branch is gone; when the switch fails no branch
\* is deleted.
AbandonSwitchesThenDeletes ==
    AbandonRan =>
        /\ \A i \in ExpCallsOf("DeleteBranch") :
              /\ lastOp.calls[i].name = Br(lastOp.pre.current)
              /\ \E j \in ExpCallsOf("SwitchBranch") : j < i /\ lastOp.calls[j].ok
        /\ lastOp.err = "" =>
              /\ IsOnMain(lastOp.post.current)
              /\ Br(lastOp.pre.current) \notin DOMAIN lastOp.post.refs
              /\ DOMAIN lastOp.post.refs = (DOMAIN lastOp.pre.refs) \ {Br(lastOp.pre.current)}
        /\ (\E j \in ExpCallsOf("SwitchBranch") : ~lastOp.calls[j].ok) =>
              /\ lastOp.post.refs = lastOp.pre.refs
              /\ ExpCallsOf("DeleteBranch") = {}

\* An experiment that was never merged into main was abandoned
AbandonedUnmerged ==
    /\ AbandonRan /\ lastOp.err = ""
    /\ IsExperiment(Br(lastOp.pre.current))
    /\ ~(HistoryOf(lastOp.pre, lastOp.pre.current) \subseteq HistoryOf(lastOp.pre, Main))
    /\ Br(lastOp.pre.current) \notin DOMAIN refs

\* The switch to main of an AbandonExperiment failed
AbandonSwitchFailed ==
    /\ AbandonRan
    /\ \E j \in ExpCallsOf("SwitchBranch") : ~lastOp.calls[j].ok

\* The last operation was a switch that got past the checks of its request
SwitchRan ==
    /\ lastOp.kind \in {"doSwitchExperiment", "handleSwitchExperiment"}
    /\ lastOp.status \notin {400, 405}

\* C20: a switch stashes exactly when there are uncommitted changes, and
\* before the checkout; when the stash fails it reports an error and checks
\* nothing out; when the checkout succeeds it reports success, whatever the
\* stash pop after it returns.
SwitchStashesAndIgnoresPop ==
    SwitchRan =>
        /\ (ExpCallsOf("Stash") # {}) <=> HasChanges(lastOp.pre.work)
        /\ \A i \in ExpCallsOf("Stash"), j \in ExpCallsOf("SwitchBranch") : i < j
        /\ (\E i \in ExpCallsOf("Stash") : ~lastOp.calls[i].ok) =>
              /\ lastOp.err # ""
              /\ ExpCallsOf("SwitchBranch") = {}
              /\ lastOp.post.current = lastOp.pre.current
        /\ (\E j \in ExpCallsOf("SwitchBranch") : lastOp.calls[j].ok) =>
              /\ lastOp.err = ""
              /\ lastOp.post.current = lastOp.branch
              /\ lastOp.kind = "handleSwitchExperiment" => lastOp.status = 200
              /\ lastOp.kind = "doSwitchExperiment" => experiments.state = "Success"

\* A switch stashed the changes, checked the branch out, and the stash pop
\* failed
SwitchedThoughPopFailed ==
    /\ SwitchRan /\ lastOp.err = ""
    /\ HasChanges(lastOp.pre.work)
    /\ \E i \in ExpCallsOf("StashPop") : ~lastOp.calls[i].ok
    /\ lastOp.post.current # lastOp.pre.current
\* ------------------------------------------------ the git package, called
\* The functions of the git package called one after the other on a
\* repository, each call recorded with what it was given and what it returned
MaxCalls == 2

\* The last call: the function, its input, its result, and how many calls
\* were made so far
GitOp(kind, input, output) ==
    [kind |-> kind, in |-> input, out |-> output, n |-> lastOp.n + 1]

NoGitOp == [kind |-> "none", in |-> <<>>, out |-> <<>>, n |-> 0]

\* The commit HEAD is at: 0 on a branch that has no commit yet
HeadOf(r, cur) == IF Br(cur) \in DOMAIN r THEN r[Br(cur)] ELSE 0

Master == <<"master">>

\* The repositories the calls are made on: one without a commit, and ones
\* with main, master, both (master the later commit) or neither
GitRepos ==
    {[refs |-> <<>>, current |-> Main],
     [refs |-> Br(Main) :> 1, current |-> Main],
     [refs |-> Br(Master) :> 1, current |-> Master],
     [refs |-> Br(Main) :> 1 @@ Br(Master) :> 2, current |-> Main],
     [refs |-> Br(Dev) :> 1, current |-> Dev],
     [refs |-> Br(Main) :> 1 @@ Br(Dev) :> 2, current |-> Dev]}

gitFrame ==
    <<mode, storedMaxBackups, appState, restore, backups, inflight, storedAutoSync,
      save, saving, saveOp, menu, graph, merging, stash, experiments, configFile, subjects>>

CanCall == lastOp.n < MaxCalls

\* git.Push()
GitPush ==
    \E currentFails, pushFails \in BOOLEAN :
       /\ CanCall
       /\ HeadOf(refs, current) = 0 => currentFails
       /\ LET res == Push(work, hasRemote, current, currentFails, pushFails)
          IN /\ work' = res.work
             /\ lastOp' = GitOp("Push", [origin |-> hasRemote, branch |-> current,
                                         currentFails |-> currentFails,
                                         pushFails |-> pushFails], res)
       /\ UNCHANGED <<gitFrame, refs, current, now, branchSort, hasRemote, worktree>>

\* git.AddOrigin(url) with a URL
GitAddOrigin ==
    /\ CanCall
    /\ hasRemote' = TRUE
    /\ lastOp' = GitOp("AddOrigin", hasRemote, IF hasRemote THEN "exists" ELSE "")
    /\ UNCHANGED <<gitFrame, refs, current, now, branchSort, work, worktree>>

\* git.Log(20), and the answer of handleCommits to GET /api/commits
handleCommits(head, fails) ==
    LET lg == Log(head, LogLimit, fails)
    IN [commits |-> lg.commits, err |-> lg.err, status |-> IF lg.err THEN 500 ELSE 200]

GitLog ==
    \E fails \in BOOLEAN :
       /\ CanCall
       /\ lastOp' = GitOp("Log", [head |-> HeadOf(refs, current), failed |-> fails],
                          handleCommits(HeadOf(refs, current), fails))
       /\ UNCHANGED <<gitFrame, refs, current, now, branchSort, work, hasRemote, worktree>>

\* git.GetMainBranch()
GitGetMainBranch ==
    \E fails \in BOOLEAN :
       /\ CanCall
       /\ lastOp' = GitOp("GetMainBranch", [branches |-> DOMAIN refs, failed |-> fails],
                          GetMainBranch(refs, current, branchSort, fails))
       /\ UNCHANGED <<gitFrame, refs, current, now, branchSort, work, hasRemote, worktree>>

\* The names a user types for an experiment
InputNames == {"a", "my idea"}

\* git.CreateExperiment(name)
GitCreateExperiment ==
    \E name \in InputNames, fails \in BOOLEAN :
       LET res == CreateExperiment(refs, current, name, now, fails)
       IN /\ CanCall
          /\ refs' = res.refs
          /\ current' = res.current
          /\ lastOp' = GitOp("CreateExperiment",
                             [name |-> name, now |-> now, refs |-> refs, current |-> current],
                             [branchName |-> res.branchName, err |-> res.err])
          /\ UNCHANGED <<gitFrame, now, branchSort, work, hasRemote, worktree>>

\* The patterns given to AddToGitignore
Patterns == {"*.log", "*.tmp"}

\* git.AddToGitignore(pattern)
GitAddToGitignore ==
    \E pattern \in Patterns, fails \in BOOLEAN :
       LET res == AddToGitignore(work, pattern, fails)
       IN /\ CanCall
          /\ work' = res.work
          /\ lastOp' = GitOp("AddToGitignore",
                             [pattern |-> pattern, before |-> work.ignoreFile],
                             [err |-> res.err, after |-> res.work.ignoreFile])
          /\ UNCHANGED <<gitFrame, refs, current, now, branchSort, hasRemote, worktree>>

\* A second passes after an experiment was created
GitTick ==
    /\ now < MaxTime
    /\ lastOp.kind = "CreateExperiment"
    /\ now' = now + 1
    /\ UNCHANGED <<gitFrame, refs, current, branchSort, work, hasRemote, worktree, lastOp>>

\* git.AbandonExperiment() as the program reaches it: the menu and the
\* experiments screen offer it off main and master and run doAbandonExperiment,
\* POST /api/experiment/abandon runs handleAbandonExperiment on any branch
GitAbandonExperiment ==
    \E via \in {"menu", "web"}, f \in AbandonFailures :
       LET res == IF via = "web"
                  THEN handleAbandonExperiment(TheRepo, branchSort, "POST", f)
                  ELSE doAbandonExperiment(TheRepo, branchSort, f)
       IN /\ CanCall
          /\ via = "menu" => ~IsOnMain(current)
          /\ refs' = res.repo.refs
          /\ current' = res.repo.current
          /\ lastOp' = GitOp("AbandonExperiment",
                             [via |-> via, refs |-> refs, current |-> current],
                             [refs |-> res.repo.refs, current |-> res.repo.current])
          /\ UNCHANGED <<gitFrame, now, branchSort, work, hasRemote, worktree>>

InitGit ==
    /\ mode = "tui"
    /\ \E rp \in GitRepos : refs = rp.refs /\ current = rp.current
    /\ now = 1
    /\ branchSort \in {"refname", "-refname", "-committerdate"}
    /\ storedMaxBackups = MaxStoredBackups
    /\ appState = "menu"
    /\ restore = ZeroRestoreModel
    /\ backups = ZeroBackupsModel
    /\ inflight = {}
    /\ lastOp = NoGitOp
    /\ work \in {InitWork, [InitWork EXCEPT !.ignoreFile = <<>>, !.ignoreHead = <<>>],
                 [InitWork EXCEPT !.tree = [p \in Range(Paths) |-> FALSE]]}
    /\ storedAutoSync = FALSE
    /\ hasRemote \in BOOLEAN
    /\ save = ZeroSaveModel
    /\ saving = NoSaving
    /\ saveOp = NoSaveOp
    /\ graph = LinearHistory
    /\ merging = FALSE
    /\ stash = <<>>
    /\ experiments = ZeroExperimentsModel
    /\ worktree = <<>>
    /\ subjects = PlainSubjects
    /\ configFile = StoredConfig
    /\ menu = NewMenuModel(InitWork)

NextGit ==
    \/ GitPush
    \/ GitAddOrigin
    \/ GitLog
    \/ GitGetMainBranch
    \/ GitCreateExperiment
    \/ GitAbandonExperiment
    \/ GitAddToGitignore
    \/ GitTick

SpecGit == InitGit /\ [][NextGit]_vars

\* ------------------------------------------------- the git package: Push
PushRan == lastOp.kind = "Push"

PushCommands(op) == {i \in 1..Len(op.out.calls) : op.out.calls[i].cmd = "push -u origin"}

\* Whether the call pushed the current branch to origin with upstream
\* tracking as its last command and returned what that command returned
PushedCurrent(op) ==
    /\ PushCommands(op) = {Len(op.out.calls)}
    /\ op.out.calls[Len(op.out.calls)].branch = op.in.branch
    /\ op.out.error = IF op.in.pushFails THEN "push failed" ELSE ""

\* Whether the call returned NoRemoteError without running a push command
RefusedNoRemote(op) == op.out.error = "NoRemoteError" /\ PushCommands(op) = {}

\* C21, as stated: Push returns NoRemoteError, having run no push command,
\* exactly when no origin remote is configured, and otherwise pushes the
\* current branch and returns the result of that command.
PushNoRemoteOrPushes ==
    PushRan =>
       IF ~lastOp.in.origin THEN RefusedNoRemote(lastOp)
       ELSE ~RefusedNoRemote(lastOp) /\ PushedCurrent(lastOp)

\* C21, amended: Push returns NoRemoteError, having run no push command,
\* exactly when no origin remote is configured; otherwise, when the current
\* branch cannot be determined, it returns that error and runs no push
\* command; otherwise it pushes the current branch to origin with upstream
\* tracking and returns the result of that command.
PushNoRemoteOrBranchOrPushes ==
    PushRan =>
       IF ~lastOp.in.origin THEN RefusedNoRemote(lastOp)
       ELSE IF lastOp.in.currentFails
       THEN lastOp.out.error = "rev-parse failed" /\ PushCommands(lastOp) = {}
       ELSE ~RefusedNoRemote(lastOp) /\ PushedCurrent(lastOp)

\* Push on a repository whose branch has no commit: the remote is there and
\* nothing is pushed
PushWithoutBranch ==
    /\ PushRan
    /\ lastOp.in.origin
    /\ lastOp.in.currentFails
    /\ HeadOf(refs, current) = 0

\* ------------------------------------------ the TUI: commands in flight
\* A TUI session in which the save screen and the restore screen are both
\* used
InitFlight ==
    /\ mode = "tui"
    /\ current = Main
    /\ refs = (Br(Main) :> NumCommits)
    /\ now = 1
    /\ branchSort = "refname"
    /\ storedMaxBackups = MaxStoredBackups
    /\ appState = "menu"
    /\ restore = ZeroRestoreModel
    /\ backups = ZeroBackupsModel
    /\ inflight = {}
    /\ lastOp = NoOp
    /\ work = InitWork
    /\ storedAutoSync = FALSE
    /\ hasRemote = FALSE
    /\ save = ZeroSaveModel
    /\ saving = NoSaving
    /\ saveOp = NoSaveOp
    /\ graph = LinearHistory
    /\ merging = FALSE
    /\ stash = <<>>
    /\ experiments = ZeroExperimentsModel
    /\ worktree = <<>>
    /\ subjects = PlainSubjects
    /\ configFile = StoredConfig
    /\ menu = NewMenuModel(work)

NextFlight ==
    \/ MenuEnterSave
    \/ MenuEnterSaveInFlight
    \/ SaveKeyType
    \/ SaveKeyEnter
    \/ SaveEsc
    \/ SaveAnyKeyWhenDone
    \/ RunSaveCmd
    \/ MenuEnterRestore
    \/ RestoreKeyList
    \/ RestoreKeyNo
    \/ RestoreKeyYes
    \/ Esc
    \/ AnyKeyWhenDone
    \/ RunRestoreCmd

SpecFlight == InitFlight /\ [][NextFlight]_vars

\* The commands launched and still running: doSave stages and commits,
\* doRestore and doRevert create a backup branch and reset
MutatingInFlight == Cardinality(inflight) + Cardinality(saving.cmds)

\* C22: never are two mutating git operations of the application in flight
\* at once, whatever keys are pressed, Esc while a command runs included.
OneMutatingOperationAtATime == MutatingInFlight <= 1

\* C23: every error a command launched from a TUI flow returns reaches that
\* flow and puts it in its Error state with the error, also when Esc was
\* pressed while the command was running.
ErrorsReachTheirFlow ==
    /\ lastOp.kind \in {"doRestore", "doRevert"} /\ lastOp.err # ""
          => appState = "restore" /\ restore.state = "Error" /\ restore.err = lastOp.err
    /\ saveOp.kind = "doSave" /\ saveOp.err # ""
          => appState = "save" /\ save.state = "Error" /\ save.err = saveOp.err

\* ------------------------------------------------ git status, as text
\* The files of the working tree of the status sessions, in the order git
\* status lists them, and the file one of them may have been renamed from.
\* A text is the sequence of its characters.
StatusFiles == <<"a", "b">>

OldFile == "o"

\* The XY codes of git status --porcelain that the sessions meet: X is the
\* index, Y the working tree
StatusCodes ==
    {<<" ", "M">>, <<"M", " ">>, <<"M", "M">>, <<"A", " ">>, <<"A", "M">>, <<"A", "D">>,
     <<"?", "?">>, <<" ", "D">>, <<"D", " ">>, <<"M", "D">>, <<"R", " ">>, <<"R", "M">>,
     <<"R", "D">>}

\* The line of one entry: XY, a space, the path, which for a rename in the
\* index is "<old> -> <new>"
StatusLine(e) ==
    e.code \o <<" ">> \o
    (IF e.code[1] = "R" THEN <<OldFile, " ", "-", ">", " ">> ELSE <<>>) \o <<e.path>>

RECURSIVE Porcelain(_)
\* git status --porcelain: one line for each entry, each ended by a newline
Porcelain(entries) ==
    IF entries = <<>> THEN <<>>
    ELSE StatusLine(Head(entries)) \o <<"\n">> \o Porcelain(Tail(entries))

RECURSIVE TrimLeft(_)
TrimLeft(text) ==
    IF text # <<>> /\ Head(text) \in {" ", "\n"} THEN TrimLeft(Tail(text)) ELSE text

\* strings.TrimSpace
TrimSpace(text) == Reverse(TrimLeft(Reverse(TrimLeft(text))))

\* git.Run: the output of the command with the white space around it removed
Run(output) == TrimSpace(output)

RECURSIVE Split(_)
\* strings.Split(text, "\n")
Split(text) ==
    IF text = <<>> THEN <<(<<>>)>>
    ELSE LET rest == Split(Tail(text))
         IN IF Head(text) = "\n" THEN <<(<<>>)>> \o rest
            ELSE <<(<<Head(text)>> \o rest[1])>> \o Tail(rest)

\* The switch of GetChangeSummary with renamed tried before deleted
ClassifyRenamedFirst(statusCode) ==
    IF statusCode[1] = "A" \/ statusCode[2] = "A" \/ statusCode = <<"?", "?">> THEN "added"
    ELSE IF statusCode[1] = "R" \/ statusCode[2] = "R" THEN "renamed"
    ELSE IF statusCode[1] = "D" \/ statusCode[2] = "D" THEN "deleted"
    ELSE "modified"

\* The switch of GetChangeSummary over the two characters of the code
Classify(statusCode) ==
    IF statusCode[1] = "A" \/ statusCode[2] = "A" \/ statusCode = <<"?", "?">> THEN "added"
    ELSE IF statusCode[1] = "D" \/ statusCode[2] = "D" THEN "deleted"
    ELSE IF statusCode[1] = "R" \/ statusCode[2] = "R" THEN "renamed"
    ELSE "modified"

\* The body of the loop of GetChangeSummary: line[:2] is the code and what
\* follows, trimmed, the path
ParseStatusLine(line) ==
    [Status |-> Classify(SubSeq(line, 1, 2)),
     Path |-> TrimSpace(SubSeq(line, 3, Len(line)))]

\* git.GetChangeSummary on the text git status prints: no change for no
\* output, else one change for each line of at least 3 characters
ParseStatus(printed) ==
    LET output == Run(printed)
        lines == SelectSeq(Split(output), LAMBDA line : Len(line) >= 3)
    IN IF output = <<>> THEN <<>>
       ELSE [i \in 1..Len(lines) |-> ParseStatusLine(lines[i])]

\* git add -- <paths> on the entries: it refuses, staging nothing, when a
\* path names no file of the working tree or the index; else the working
\* tree state of each named file goes to the index; a file added and deleted
\* again is no entry any more, and of one renamed and deleted the deletion
\* of the old file is left
Known(entries, path) ==
    \E i \in 1..Len(entries) :
       /\ path = <<entries[i].path>>
       /\ entries[i].code # <<"D", " ">>

Staged(e) ==
    LET x == e.code[1]
        y == e.code[2]
    IN IF y = " " THEN e
       ELSE IF x = "?" THEN [e EXCEPT !.code = <<"A", " ">>]
       ELSE IF y = "D" /\ x = "A" THEN [e EXCEPT !.code = <<" ", " ">>]
       ELSE IF y = "D" /\ x = "R" THEN [e EXCEPT !.code = <<"D", " ">>, !.path = OldFile]
       ELSE IF y = "D" THEN [e EXCEPT !.code = <<"D", " ">>]
       ELSE IF x = " " THEN [e EXCEPT !.code = <<"M", " ">>]
       ELSE [e EXCEPT !.code = <<x, " ">>]

StillListed(entries) == SelectSeq(entries, LAMBDA e : e.code # <<" ", " ">>)

\* git.AddFiles(paths) on the entries
StageFiles(entries, paths, fails) ==
    IF Len(paths) = 0 THEN [worktree |-> entries, err |-> FALSE]
    ELSE IF fails \/ \E i \in 1..Len(paths) : ~Known(entries, paths[i])
    THEN [worktree |-> entries, err |-> TRUE]
    ELSE [worktree |-> StillListed([i \in 1..Len(entries) |->
                                 IF <<entries[i].path>> \in Range(paths)
                                 THEN Staged(entries[i]) ELSE entries[i]]),
          err |-> FALSE]

\* git.Commit on the entries: what the index holds is committed, and it fails
\* with nothing in the index
CommitStaged(entries, fails) ==
    LET InIndex(e) == e.code[1] \notin {" ", "?"}
        Left(e) == IF InIndex(e) THEN [e EXCEPT !.code = <<" ", e.code[2]>>] ELSE e
    IN IF fails \/ ~\E i \in 1..Len(entries) : InIndex(entries[i])
       THEN [worktree |-> entries, err |-> TRUE]
       ELSE [worktree |-> StillListed([i \in 1..Len(entries) |-> Left(entries[i])]),
             err |-> FALSE]

\* git.HasChanges on the entries: git status --porcelain prints something
StatusHasChanges(entries) == Run(Porcelain(entries)) # <<>>

\* The working trees of the status sessions
Worktrees ==
    LET Choice == StatusCodes \cup {<<" ", " ">>}
    IN {StillListed([i \in 1..Len(StatusFiles) |-> [code |-> c[i], path |-> StatusFiles[i]]]) :
          c \in [1..Len(StatusFiles) -> Choice]}

statusFrame ==
    <<mode, refs, current, now, branchSort, storedMaxBackups, appState, restore, backups,
      inflight, saveVars, menu, expVars, configFile, subjects>>

\* changes, _ := git.GetChangeSummary()
StatusGetChangeSummary ==
    /\ CanCall
    /\ lastOp' = GitOp("GetChangeSummary", worktree, ParseStatus(Porcelain(worktree)))
    /\ UNCHANGED <<statusFrame, worktree>>

\* The paths of GetChangeSummary given to AddFiles, then Commit, then
\* HasChanges
StatusRoundTrip ==
    \E addFails, commitFails \in BOOLEAN :
       LET changes == ParseStatus(Porcelain(worktree))
           paths == [i \in 1..Len(changes) |-> changes[i].Path]
           ad == StageFiles(worktree, paths, addFails)
           cm == CommitStaged(ad.worktree, commitFails)
       IN /\ CanCall
          /\ worktree' = cm.worktree
          /\ lastOp' = GitOp("RoundTrip",
                             [worktree |-> worktree, paths |-> paths,
                              failed |-> addFails \/ commitFails],
                             [addErr |-> ad.err, commitErr |-> cm.err,
                              hasChanges |-> StatusHasChanges(cm.worktree)])
          /\ UNCHANGED statusFrame

InitStatus ==
    /\ mode \in {"tui", "web"}
    /\ current = Main
    /\ refs = (Br(Main) :> NumCommits)
    /\ now = 1
    /\ branchSort = "refname"
    /\ storedMaxBackups = MaxStoredBackups
    /\ appState = "menu"
    /\ restore = ZeroRestoreModel
    /\ backups = ZeroBackupsModel
    /\ inflight = {}
    /\ lastOp = NoGitOp
    /\ work = InitWork
    /\ storedAutoSync = FALSE
    /\ hasRemote = FALSE
    /\ save = ZeroSaveModel
    /\ saving = NoSaving
    /\ saveOp = NoSaveOp
    /\ graph = LinearHistory
    /\ merging = FALSE
    /\ stash = <<>>
    /\ experiments = ZeroExperimentsModel
    /\ worktree \in Worktrees
    /\ subjects = PlainSubjects
    /\ configFile = StoredConfig
    /\ menu = NewMenuModel(work)

NextStatus ==
    \/ StatusGetChangeSummary
    \/ StatusRoundTrip

SpecStatus == InitStatus /\ [][NextStatus]_vars

\* ------------------------------------------- git status: the properties
\* C24: the paths GetChangeSummary returns, given to AddFiles and followed by
\* Commit, leave HasChanges false, no command failing for another reason and
\* nothing else touching the working tree; renamed entries included.
RoundTripLeavesNoChanges ==
    lastOp.kind = "RoundTrip" /\ ~lastOp.in.failed => ~lastOp.out.hasChanges

\* The status the precedence added, deleted, renamed, modified gives a code
PrecedenceOf(code) ==
    LET either == {code[1], code[2]}
    IN IF "A" \in either \/ code = <<"?", "?">> THEN "added"
       ELSE IF "D" \in either THEN "deleted"
       ELSE IF "R" \in either THEN "renamed"
       ELSE "modified"

\* C28: GetChangeSummary returns one change for each line of the status
\* output, the first included, and its status is the one the precedence
\* added, deleted, renamed, modified gives the two-character code of the line.
EveryLineClassifiedByPrecedence ==
    lastOp.kind = "GetChangeSummary" =>
       /\ Len(lastOp.out) = Len(lastOp.in)
       /\ \A i \in 1..Len(lastOp.in) : lastOp.out[i].Status = PrecedenceOf(lastOp.in[i].code)

\* GetChangeSummary ran on a status whose first line begins with a space and
\* is a deletion, followed by a file renamed in the index and deleted
FirstLineWithSpaceClassified ==
    /\ lastOp.kind = "GetChangeSummary"
    /\ Len(lastOp.in) = 2
    /\ lastOp.in[1].code = <<" ", "D">>
    /\ lastOp.in[2].code = <<"R", "D">>
    /\ lastOp.out[1].Status = "deleted"

\* ------------------------------------------ the git package: properties
\* C25: on a repository with no commits Log(20) returns an empty sequence
\* and no error, and GET /api/commits does not answer 500.
LogOfNoCommitsIsEmpty ==
    lastOp.kind = "Log" /\ lastOp.in.head = 0 /\ ~lastOp.in.failed =>
       /\ lastOp.out.commits = <<>>
       /\ ~lastOp.out.err
       /\ lastOp.out.status # 500

\* C27: CreateExperiment(name) asks git for a branch experiment-<name made
\* fit for a branch name>-<the current second>, which is then the current
\* branch; when the branch cannot be created it returns an error and leaves
\* the current branch and the set of branches as they were.
CreateExperimentSanitizes ==
    lastOp.kind = "CreateExperiment" =>
       /\ Len(lastOp.out.branchName) = 3
       /\ lastOp.out.branchName[1] = "experiment"
       /\ lastOp.out.branchName[3] = FormatTime(lastOp.in.now)
       /\ CheckRefFormat(lastOp.out.branchName)
       /\ ~lastOp.out.err =>
             /\ current = lastOp.out.branchName
             /\ DOMAIN refs \in {DOMAIN lastOp.in.refs,
                                 DOMAIN lastOp.in.refs \cup {Br(lastOp.out.branchName)}}
       /\ lastOp.out.err => current = lastOp.in.current /\ refs = lastOp.in.refs

\* C29: GetMainBranch returns main whenever a branch main exists, master
\* when master exists and main does not, and main when neither exists or the
\* listing fails.
MainPreferredOverMaster ==
    lastOp.kind = "GetMainBranch" =>
       lastOp.out = IF lastOp.in.failed THEN Main
                    ELSE IF Br(Main) \in lastOp.in.branches THEN Main
                    ELSE IF Br(Master) \in lastOp.in.branches THEN Master
                    ELSE Main

\* How many lines of the text are the pattern
Copies(text, pattern) == Cardinality({i \in 1..Len(text) : text[i] = pattern})

\* C30: AddToGitignore only appends: the file as it was is a prefix of the
\* file as it is, what was added is a newline followed by the pattern, also
\* to a file that was not there, and a pattern the file already holds is in
\* it once more.
AddToGitignoreOnlyAppends ==
    lastOp.kind = "AddToGitignore" /\ ~lastOp.out.err =>
       /\ Len(lastOp.out.after) = Len(lastOp.in.before) + 2
       /\ SubSeq(lastOp.out.after, 1, Len(lastOp.in.before)) = lastOp.in.before
       /\ SubSeq(lastOp.out.after, Len(lastOp.in.before) + 1, Len(lastOp.out.after))
             = <<"\n", lastOp.in.pattern>>
       /\ Copies(lastOp.out.after, lastOp.in.pattern)
             = Copies(lastOp.in.before, lastOp.in.pattern) + 1
       /\ work.ignoreFile = lastOp.out.after

\* The same pattern was added by two calls, to a file that was not there
\* before the first: it is there twice
PatternAddedTwice ==
    /\ lastOp.kind = "AddToGitignore"
    /\ ~lastOp.out.err
    /\ lastOp.in.before = <<"\n", lastOp.in.pattern>>
    /\ Copies(work.ignoreFile, lastOp.in.pattern) = 2

\* ------------------------------------------------------ the config file
\* config.Save(cfg): writes the config as JSON, replacing the file
Save(cfg, fails) ==
    IF fails
    THEN [file |-> configFile, maxBackups |-> storedMaxBackups,
          autoSync |-> storedAutoSync, err |-> TRUE]
    ELSE [file |-> [found |-> TRUE, parses |-> TRUE,
                    experimentsEnabled |-> cfg.ExperimentsEnabled, theme |-> cfg.Theme],
          maxBackups |-> cfg.MaxBackups, autoSync |-> cfg.AutoSyncEnabled, err |-> FALSE]

\* The most backups POST /api/config lets one ask for
MaxBackupsLimit == 1000

\* handleConfig for POST: the config is loaded, the fields given in the body
\* replace its own, maxBackups held between 1 and 1000, and it is saved
handleConfig(bodyOk, autoSyncEnabled, maxBackups, saveFails) ==
    LET ld == LoadFile(configFile, storedMaxBackups, storedAutoSync)
        val == IF maxBackups.value < 1 THEN 1
               ELSE IF maxBackups.value > MaxBackupsLimit THEN MaxBackupsLimit
               ELSE maxBackups.value
        cfg == [ld.cfg EXCEPT
                   !.AutoSyncEnabled = IF autoSyncEnabled.given THEN autoSyncEnabled.value ELSE @,
                   !.MaxBackups = IF maxBackups.given THEN val ELSE @]
        sv == Save(cfg, saveFails)
        kept == Save(cfg, TRUE)
    IN IF ~bodyOk THEN [saved |-> kept, status |-> 400]
       ELSE IF ld.err # "" THEN [saved |-> kept, status |-> 500]
       ELSE IF sv.err THEN [saved |-> kept, status |-> 500]
       ELSE [saved |-> sv, status |-> 200]

configFrame ==
    <<mode, refs, current, now, branchSort, appState, restore, backups, inflight, work,
      hasRemote, save, saving, saveOp, menu, expVars, worktree, subjects>>

\* cfg, err := config.Load()
ConfigLoad ==
    /\ CanCall
    /\ lastOp' = GitOp("Load", [file |-> configFile, maxBackups |-> storedMaxBackups,
                                autoSync |-> storedAutoSync],
                       LoadFile(configFile, storedMaxBackups, storedAutoSync))
    /\ UNCHANGED <<configFrame, configFile, storedMaxBackups, storedAutoSync>>

\* POST /api/config
WebConfig ==
    \E bodyOk, saveFails \in BOOLEAN,
       autoSyncEnabled \in {[given |-> FALSE, value |-> FALSE], [given |-> TRUE, value |-> TRUE]},
       maxBackups \in {[given |-> FALSE, value |-> 0], [given |-> TRUE, value |-> 0],
                       [given |-> TRUE, value |-> MaxStoredBackups],
                       [given |-> TRUE, value |-> MaxBackupsLimit + 1]} :
       LET res == handleConfig(bodyOk, autoSyncEnabled, maxBackups, saveFails)
       IN /\ CanCall
          /\ configFile' = res.saved.file
          /\ storedMaxBackups' = res.saved.maxBackups
          /\ storedAutoSync' = res.saved.autoSync
          /\ lastOp' = GitOp("handleConfig", [file |-> configFile], res.status)
          /\ UNCHANGED configFrame

\* The config files a session may find: none, one that is no JSON, and ones
\* with a theme that is empty, known or unknown
ConfigFiles ==
    {[found |-> FALSE, parses |-> FALSE, experimentsEnabled |-> FALSE, theme |-> ""],
     [found |-> TRUE, parses |-> FALSE, experimentsEnabled |-> FALSE, theme |-> ""]}
       \cup
    {[found |-> TRUE, parses |-> TRUE, experimentsEnabled |-> e, theme |-> t] :
        e \in BOOLEAN, t \in {"", "coral", "monokai", "neon"}}

InitConfig ==
    /\ mode = "web"
    /\ current = Main
    /\ refs = (Br(Main) :> NumCommits)
    /\ now = 1
    /\ branchSort = "refname"
    /\ storedMaxBackups \in {0 - 1, 0, 1, MaxStoredBackups}
    /\ appState = "menu"
    /\ restore = ZeroRestoreModel
    /\ backups = ZeroBackupsModel
    /\ inflight = {}
    /\ lastOp = NoGitOp
    /\ work = InitWork
    /\ storedAutoSync \in BOOLEAN
    /\ hasRemote = FALSE
    /\ save = ZeroSaveModel
    /\ saving = NoSaving
    /\ saveOp = NoSaveOp
    /\ graph = LinearHistory
    /\ merging = FALSE
    /\ stash = <<>>
    /\ experiments = ZeroExperimentsModel
    /\ worktree = <<>>
    /\ subjects = PlainSubjects
    /\ configFile \in ConfigFiles
    /\ menu = NewMenuModel(work)

NextConfig ==
    \/ ConfigLoad
    \/ WebConfig

SpecConfig == InitConfig /\ [][NextConfig]_vars

\* C26: with no config file Load returns exactly the defaults (auto-sync
\* off, 10 backups, experiments off, theme coral) and no error; for every
\* config file that is there, MaxBackups is at least 1 and Theme is a key of
\* Themes.
LoadDefaultsAndClamps ==
    lastOp.kind = "Load" =>
       /\ ~lastOp.in.file.found =>
             /\ lastOp.out.cfg = [AutoSyncEnabled |-> FALSE, MaxBackups |-> 10,
                                  ExperimentsEnabled |-> FALSE, Theme |-> "coral"]
             /\ lastOp.out.err = ""
       /\ lastOp.in.file.found =>
             /\ lastOp.out.cfg.MaxBackups >= 1
             /\ lastOp.out.cfg.Theme \in Themes

\* Load ran on a file that parses and holds maxBackups below 1 and a theme
\* that is no key of Themes
LoadedOutOfRangeFile ==
    /\ lastOp.kind = "Load"
    /\ lastOp.in.file.found /\ lastOp.in.file.parses
    /\ lastOp.in.maxBackups < 1
    /\ lastOp.in.file.theme \notin Themes \cup {""}
    /\ lastOp.out.cfg.Theme = "coral"

\* ------------------------------------------------ the keys of the file lists
\* The keys that cycle forward, and those that cycle back
ForwardKeys == {" ", "tab", "right"}

BackwardKeys == {"left", "shift+tab"}

\* What a key did to the file under the cursor of a screen; run is the chain
\* of actions the file went through under forward keys pressed one after
\* another
KeyOp(screen, file, key, before, after) ==
    LET goesOn == /\ lastOp.kind = "key" /\ lastOp.screen = screen /\ lastOp.file = file
                  /\ lastOp.key \in ForwardKeys /\ lastOp.after = before
                  /\ Len(lastOp.run) < 5
    IN [kind |-> "key", screen |-> screen, file |-> file, key |-> key,
        before |-> before, after |-> after,
        run |-> IF key \notin ForwardKeys THEN <<>>
                ELSE IF goesOn THEN Append(lastOp.run, after)
                ELSE <<before, after>>]

keysFrame == <<fileVars, expVars, repoVars, restore, backups, inflight, appState, work,
               storedAutoSync, hasRemote, saving, saveOp>>

\* SaveModel.Update / SaveV2Model.Update on a key of the file list
KeysSave ==
    /\ \E key \in FileKeys("SaveV2Model") :
          /\ SaveKeyFile(key)
          /\ lastOp' = KeyOp(save.variant, save.cursor, key,
                             save.files[save.cursor + 1].Action,
                             save'.files[save.cursor + 1].Action)
    /\ UNCHANGED <<keysFrame, menu>>

\* MenuModel.Update on a key of the file list
KeysMenu ==
    /\ \E key \in FileKeys("MenuModel") :
          /\ MenuKeyFile(key)
          /\ LET filePath == menu.changedFiles[menu.fileCursor + 1]
             IN lastOp' = KeyOp("MenuModel", menu.fileCursor, key,
                                MapGet(menu.fileActions, filePath),
                                MapGet(menu'.fileActions, filePath))
    /\ UNCHANGED <<keysFrame, save>>

\* The menu opens on a repository with one or two changed files
InitKeys ==
    /\ mode = "tui"
    /\ current = Main
    /\ refs = (Br(Main) :> NumCommits)
    /\ now = 1
    /\ branchSort = "refname"
    /\ storedMaxBackups = MaxStoredBackups
    /\ appState = "menu"
    /\ restore = ZeroRestoreModel
    /\ backups = ZeroBackupsModel
    /\ inflight = {}
    /\ lastOp = NoOp
    /\ work \in InitWorks
    /\ storedAutoSync = FALSE
    /\ hasRemote = FALSE
    /\ save = ZeroSaveModel
    /\ saving = NoSaving
    /\ saveOp = NoSaveOp
    /\ graph = LinearHistory
    /\ merging = FALSE
    /\ stash = <<>>
    /\ experiments = ZeroExperimentsModel
    /\ worktree = <<>>
    /\ subjects = PlainSubjects
    /\ configFile = StoredConfig
    /\ menu = NewMenuModel(work)

NextKeys ==
    \/ MenuKeyFocus
    \/ MenuKeyFileCursor
    \/ KeysMenu
    \/ MenuEnterSave
    \/ MenuEnterSaveV2
    \/ SaveEsc
    \/ SaveKeyFocus
    \/ SaveKeyCursor
    \/ KeysSave

SpecKeys == InitKeys /\ [][NextKeys]_vars

\* The order the claim gives the actions
CycleOrder == <<"Save", "Revert", "IgnoreOnce", "Ignore">>

\* C31: a forward key takes the action of the file under the cursor one step
\* along Save -> Revert -> IgnoreOnce -> Ignore -> Save, four forward keys in
\* a row bring it back to the action it started from, a backward key undoes
\* a forward key and a forward key undoes a backward key, and the keys 1 to 4
\* set Save, Revert, IgnoreOnce and Ignore whatever the action was.
CycleAndDirectKeys ==
    lastOp.kind = "key" =>
       /\ lastOp.key \in ForwardKeys =>
             /\ \E i \in 1..4 : /\ lastOp.before = CycleOrder[i]
                                /\ lastOp.after = CycleOrder[(i % 4) + 1]
             /\ cycleActionReverse(lastOp.after) = lastOp.before
             /\ Len(lastOp.run) = 5 => lastOp.run[5] = lastOp.run[1]
       /\ lastOp.key \in BackwardKeys => cycleAction(lastOp.after) = lastOp.before
       /\ \A i \in 1..4 : lastOp.key = <<"1", "2", "3", "4">>[i] =>
                              lastOp.after = CycleOrder[i]

\* Four forward keys in a row on a file of the save screen that was set to
\* Ignore
FourKeysFromIgnore ==
    /\ lastOp.kind = "key" /\ lastOp.screen = "SaveModel"
    /\ Len(lastOp.run) = 5
    /\ lastOp.run[1] = "Ignore"

\* ------------------------------------------------ the states of a save screen
\* The moves of SaveModel.state that Update makes within one save screen
SaveFlowEdges ==
    {<<"Review", "Executing">>, <<"Executing", "AutoSyncing">>,
     <<"Executing", "Success">>, <<"Executing", "Error">>,
     <<"AutoSyncing", "Success">>, <<"AutoSyncing", "Error">>}

\* C32: while one save screen is showing, its state moves only along
\* Review -> Executing -> (AutoSyncing) -> Success | Error: Success, Error and
\* AutoSyncing are never entered from Review or NoChanges, and Success, Error
\* and NoChanges are left only when a new save screen is constructed.
SaveFlowMovesForward ==
    [][(/\ appState = "save" /\ appState' = "save"
        /\ save.variant = "SaveModel" /\ save'.variant = "SaveModel")
          => \/ save'.state = save.state
             \/ <<save.state, save'.state>> \in SaveFlowEdges]_vars

\* ------------------------------------------------ what an abandon deletes
\* C33: AbandonExperiment, reached from the menu off main and master or from
\* POST /api/experiment/abandon on any branch, deletes only branches whose
\* name starts with experiment-.
AbandonDeletesOnlyExperiments ==
    lastOp.kind = "AbandonExperiment" =>
       \A b \in (DOMAIN lastOp.in.refs) \ (DOMAIN lastOp.out.refs) : IsExperiment(b)

\* ------------------------------------------------ backups of nested branches
\* Branch names that nest: a and a/b.  git keeps no branch a beside a branch
\* a/b, but the backups of a/b stay when a/b is deleted and a is created.
Outer == <<"a">>

Nested == <<"a", "b">>

\* The repositories the backup functions are called in: on a, with a backup
\* that was made for a/b, with or without a backup of a itself; and on a/b
BackupRepos ==
    {[refs |-> Br(Main) :> 1 @@ Br(Outer) :> 2 @@ BackupName(Nested, 1) :> 1,
      current |-> Outer],
     [refs |-> Br(Main) :> 1 @@ Br(Outer) :> 2 @@ BackupName(Nested, 1) :> 1
                 @@ BackupName(Outer, 1) :> 2,
      current |-> Outer],
     [refs |-> Br(Main) :> 1 @@ Br(Nested) :> 2, current |-> Nested]}

\* The backups that were created for forBranch
CreatedFor(r, forBranch) == {n \in DOMAIN r : n.path = BackupPrefix(forBranch) /\ n.ts > 0}

backupsFrame == <<gitFrame, branchSort, work, hasRemote, worktree>>

\* git.CreateBackup(branch) for the checked-out branch
BkCreateBackup ==
    \E fails \in BOOLEAN :
       LET cb == CreateBackup(refs, current, current, now, fails)
       IN /\ CanCall
          /\ refs' = cb.refs
          /\ lastOp' = GitOp("CreateBackup", [forBranch |-> current, refs |-> refs],
                             [name |-> cb.name, err |-> cb.err])
          /\ UNCHANGED <<backupsFrame, current, now>>

\* git.ListBackups(branch) for the checked-out branch
BkListBackups ==
    \E fails \in BOOLEAN :
       LET lb == ListBackups(refs, branchSort, current, fails, {})
       IN /\ CanCall
          /\ lastOp' = GitOp("ListBackups", [forBranch |-> current, refs |-> refs],
                             [names |-> [i \in DOMAIN lb.backups |-> lb.backups[i].Name],
                              err |-> lb.err])
          /\ UNCHANGED <<backupsFrame, refs, current, now>>

\* git.TrimBackups(branch, maxCount) for the checked-out branch
BkTrimBackups ==
    \E maxCount \in 0..MaxStoredBackups, fails \in BOOLEAN :
       LET tb == TrimBackups(refs, current, branchSort, current, maxCount, fails, {}, {})
       IN /\ CanCall
          /\ refs' = tb.refs
          /\ lastOp' = GitOp("TrimBackups",
                             [forBranch |-> current, maxCount |-> maxCount, refs |-> refs],
                             [refs |-> tb.refs, err |-> tb.err])
          /\ UNCHANGED <<backupsFrame, current, now>>

\* Time passes between two calls
BkTick ==
    /\ now < MaxTime
    /\ lastOp.kind # "none"
    /\ now' = now + 1
    /\ UNCHANGED <<backupsFrame, refs, current, lastOp>>

InitBackups ==
    /\ mode = "tui"
    /\ \E rp \in BackupRepos : refs = rp.refs /\ current = rp.current
    /\ now = 2
    /\ branchSort \in {"refname", "-refname"}
    /\ storedMaxBackups = MaxStoredBackups
    /\ appState = "menu"
    /\ restore = ZeroRestoreModel
    /\ backups = ZeroBackupsModel
    /\ inflight = {}
    /\ lastOp = NoGitOp
    /\ work = InitWork
    /\ storedAutoSync = FALSE
    /\ hasRemote = FALSE
    /\ save = ZeroSaveModel
    /\ saving = NoSaving
    /\ saveOp = NoSaveOp
    /\ graph = LinearHistory
    /\ merging = FALSE
    /\ stash = <<>>
    /\ experiments = ZeroExperimentsModel
    /\ worktree = <<>>
    /\ subjects = PlainSubjects
    /\ configFile = StoredConfig
    /\ menu = NewMenuModel(InitWork)

NextBackups ==
    \/ BkCreateBackup
    \/ BkListBackups
    \/ BkTrimBackups
    \/ BkTick

SpecBackups == InitBackups /\ [][NextBackups]_vars

\* C34: ListBackups(b) lists, and TrimBackups(b, n) counts and deletes, only
\* backups that were created for branch b, also when branch names nest.
BackupsOfTheBranchOnly ==
    /\ lastOp.kind = "ListBackups" =>
          Range(lastOp.out.names) \subseteq CreatedFor(lastOp.in.refs, lastOp.in.forBranch)
    /\ lastOp.kind = "TrimBackups" =>
          (DOMAIN lastOp.in.refs) \ (DOMAIN lastOp.out.refs)
             \subseteq CreatedFor(lastOp.in.refs, lastOp.in.forBranch)

\* ------------------------------------------------ the backup of a restore
\* C35: the backup a restore creates is not deleted by the trimming of that
\* restore, whatever the configured maximum: after the restore it is a
\* branch, and it is the newest backup of the branch that was restored.
TrimKeepsTheNewBackup ==
    lastOp.kind \in RestoreToCommit =>
       \A i \in CallsOf("CreateBackup") :
          lastOp.calls[i].ok =>
             /\ lastOp.calls[i].name \notin Deleted
             /\ lastOp.calls[i].name \in DOMAIN refs
             /\ \A n \in CreatedFor(refs, current) :
                   n = lastOp.calls[i].name \/ TimestampLess(n, lastOp.calls[i].name)

\* ------------------------------------------------ the stash of a switch
\* C36: a switch pops a stash entry only if it pushed one itself: when the
\* working tree was clean at the call, the stash stack is afterwards what it
\* was and nothing of it was applied to the working tree.
SwitchPopsOnlyItsOwnStash ==
    SwitchRan =>
       /\ (\E i \in ExpCallsOf("StashPop") : lastOp.calls[i].ok) =>
             \E j \in ExpCallsOf("Stash") : lastOp.calls[j].ok
       /\ ~HasChanges(lastOp.pre.work) =>
             /\ lastOp.post.stash = lastOp.pre.stash
             /\ lastOp.post.work = lastOp.pre.work

\* C37: when a switch has stashed the changes and the checkout then fails,
\* the changes are back in the working tree when the error is returned: the
\* branch, the working tree and the stash stack are as they were.
FailedSwitchPutsChangesBack ==
    (/\ SwitchRan
     /\ \E i \in ExpCallsOf("Stash") : lastOp.calls[i].ok
     /\ \E j \in ExpCallsOf("SwitchBranch") : ~lastOp.calls[j].ok) =>
       /\ lastOp.err # ""
       /\ lastOp.post.current = lastOp.pre.current
       /\ lastOp.post.work = lastOp.pre.work
       /\ lastOp.post.stash = lastOp.pre.stash

\* ------------------------------------------------ the experiments switch list
\* View, ExperimentsStateSwitchList: the options drawn, the main branch first
\* and then the experiments, and whether each has the cursor mark
ViewSwitchList(m, mainBranch) ==
    LET allOptions == <<[Name |-> mainBranch, IsCurrent |-> m.isOnMain]>> \o m.experiments
    IN [i \in 1..Len(allOptions) |->
           [Name |-> allOptions[i].Name, IsCurrent |-> allOptions[i].IsCurrent,
            selected |-> m.expCursor = i - 1]]

\* The branches the view marks with the cursor
ShownAtCursor ==
    LET options == ViewSwitchList(experiments,
                                  GetMainBranch(refs, current, branchSort, FALSE))
    IN {options[i].Name : i \in {k \in DOMAIN options : options[k].selected}}

\* C38: in the switch list, Enter switches to the branch the view shows at
\* the cursor.
EnterSwitchesToShownBranch ==
    [][(/\ appState = "experiments"
        /\ experiments.state = "SwitchList"
        /\ experiments'.state = "Switching")
          => \A cmd \in inflight' \ inflight : cmd.branch \in ShownAtCursor]_vars

\* ------------------------------------------------ the cursor of the menu
\* MenuModel.Update(KeyMsg): up and down move the cursor over the items while
\* the focus is on the left
MenuKeyCursor ==
    /\ mode = "tui" /\ appState = "menu" /\ ~menu.focusRight
    /\ \/ /\ menu.cursor > 0
          /\ menu' = [menu EXCEPT !.cursor = @ - 1]
       \/ /\ menu.cursor < Len(menu.items) - 1
          /\ menu' = [menu EXCEPT !.cursor = @ + 1]
    /\ UNCHANGED <<fileVars, expVars, restoreVars, saveVars, appState>>

\* Another program checks out a branch of the repository (git checkout in a
\* terminal) while this one runs
GitCheckout ==
    /\ \E b \in DOMAIN refs :
          /\ b.ts = 0 /\ b.path # current
          /\ current' = b.path
    /\ UNCHANGED <<fileVars, expVars, menu, saveVars, mode, refs, now, branchSort,
                   storedMaxBackups, appState, restore, backups, inflight, lastOp>>

\* Another program rewrites ~/.smooth/config.json with experiments switched
\* on or off
ConfigEdited ==
    /\ configFile' = [configFile EXCEPT !.experimentsEnabled = ~@]
    /\ UNCHANGED <<worktree, subjects, expVars, menu, restoreVars, saveVars, appState>>

InitCursor ==
    /\ mode = "tui"
    /\ refs = (Br(Main) :> 1 @@ Br(ExperimentName("a", 1)) :> 1)
    /\ current \in {Main, ExperimentName("a", 1)}
    /\ now = 1
    /\ branchSort = "refname"
    /\ storedMaxBackups = MaxStoredBackups
    /\ appState = "menu"
    /\ restore = ZeroRestoreModel
    /\ backups = ZeroBackupsModel
    /\ inflight = {}
    /\ lastOp = NoOp
    /\ work = InitWork
    /\ storedAutoSync = FALSE
    /\ hasRemote = FALSE
    /\ save = ZeroSaveModel
    /\ saving = NoSaving
    /\ saveOp = NoSaveOp
    /\ graph = LinearHistory
    /\ merging = FALSE
    /\ stash = <<>>
    /\ experiments = ZeroExperimentsModel
    /\ worktree = <<>>
    /\ subjects = PlainSubjects
    /\ configFile \in {StoredConfig, [StoredConfig EXCEPT !.experimentsEnabled = FALSE]}
    /\ menu = NewMenuModel(work)

NextCursor ==
    \/ MenuKeyCursor
    \/ MenuKeyFocus
    \/ MenuTick
    \/ MenuEnterSave
    \/ SaveEsc
    \/ GitCheckout
    \/ ConfigEdited

SpecCursor == InitCursor /\ [][NextCursor]_vars

\* C39: in every reachable state the cursor of the menu is an index of its
\* items, also after a tick has rebuilt the items because the branch or the
\* configuration changed outside the menu.
CursorWithinItems == menu.cursor >= 0 /\ menu.cursor < Len(menu.items)

\* ------------------------------------------------ git log, as text
\* Texts are sequences of characters.  %h, %H and %cr of a commit: the
\* abbreviated hash is the beginning of the full hash
AbbrevHash(c) == <<"h", ToString(c)>>

FullHash(c) == <<"h", ToString(c), "0", "0">>

RelativeDate == <<"n", "o", "w">>

\* The subject lines commits are given
Subjects == {<<"f", "i", "x">>, <<"a", "|", "b">>, <<"|">>, <<>>}

\* git log --format=%h|%s|%cr|%H: the line of one commit
FormatCommit(c, subject) ==
    AbbrevHash(c) \o <<"|">> \o subject \o <<"|">> \o RelativeDate \o <<"|">> \o FullHash(c)

RECURSIVE LogOutput(_, _, _)
\* git log -<count> --format=...: the lines of the commits from head back
LogOutput(head, count, subj) ==
    IF head = 0 \/ count = 0 THEN <<>>
    ELSE FormatCommit(head, subj[head]) \o <<"\n">> \o LogOutput(head - 1, count - 1, subj)

RECURSIVE SplitN(_, _, _)
\* strings.SplitN(s, sep, n) for n > 0: at most n parts, the last one the
\* unsplit rest
SplitN(s, sep, n) ==
    IF n = 1 \/ \A i \in 1..Len(s) : s[i] # sep THEN <<s>>
    ELSE LET i == CHOOSE k \in 1..Len(s) : s[k] = sep /\ \A j \in 1..(k - 1) : s[j] # sep
         IN <<SubSeq(s, 1, i - 1)>> \o SplitN(SubSeq(s, i + 1, Len(s)), sep, n - 1)

\* Log(count) on the text git prints: the lines that split into four parts
LogText(head, count, subj, fails) ==
    IF fails \/ head = 0 THEN [commits |-> <<>>, err |-> TRUE]
    ELSE LET output == Run(LogOutput(head, count, subj))
             lines == Split(output)
             parts == [i \in 1..Len(lines) |-> SplitN(lines[i], "|", 4)]
             four == SelectSeq(parts, LAMBDA q : Len(q) = 4)
         IN IF output = <<>> THEN [commits |-> <<>>, err |-> FALSE]
            ELSE [commits |-> [i \in 1..Len(four) |->
                                  [Hash |-> four[i][1], Message |-> four[i][2],
                                   Timestamp |-> four[i][3], FullHash |-> four[i][4]]],
                  err |-> FALSE]

\* git.Log(count), as NewRestoreModel and handleCommits call it
LogCall ==
    \E fails \in BOOLEAN :
       LET lg == LogText(HeadOf(refs, current), LogLimit, subjects, fails)
       IN /\ CanCall
          /\ lastOp' = GitOp("LogText",
                             [head |-> HeadOf(refs, current), subjects |-> subjects],
                             lg)
          /\ UNCHANGED <<gitFrame, refs, current, now, branchSort, work, hasRemote, worktree>>

\* RestoreModel.Update: enter on a commit of the list and then y, which runs
\* doRestore(m.selected.FullHash, m.branch)
LogSelect ==
    LET lg == LogText(HeadOf(refs, current), LogLimit, subjects, FALSE)
    IN \E cursor \in 0..(Len(lg.commits) - 1) :
          /\ CanCall
          /\ ~lg.err
          /\ lastOp' = GitOp("doRestore",
                             [head |-> HeadOf(refs, current), subjects |-> subjects,
                              cursor |-> cursor],
                             [selected |-> lg.commits[cursor + 1],
                              commitHash |-> lg.commits[cursor + 1].FullHash])
          /\ UNCHANGED <<gitFrame, refs, current, now, branchSort, work, hasRemote, worktree>>

InitLog ==
    /\ mode = "tui"
    /\ current = Main
    /\ \E head \in Commits : refs = (Br(Main) :> head)
    /\ now = 1
    /\ branchSort = "refname"
    /\ storedMaxBackups = MaxStoredBackups
    /\ appState = "menu"
    /\ restore = ZeroRestoreModel
    /\ backups = ZeroBackupsModel
    /\ inflight = {}
    /\ lastOp = NoGitOp
    /\ work = InitWork
    /\ storedAutoSync = FALSE
    /\ hasRemote = FALSE
    /\ save = ZeroSaveModel
    /\ saving = NoSaving
    /\ saveOp = NoSaveOp
    /\ graph = LinearHistory
    /\ merging = FALSE
    /\ stash = <<>>
    /\ experiments = ZeroExperimentsModel
    /\ worktree = <<>>
    /\ subjects \in [Commits -> Subjects]
    /\ configFile = StoredConfig
    /\ menu = NewMenuModel(InitWork)

NextLog ==
    \/ LogCall
    \/ LogSelect

SpecLog == InitLog /\ [][NextLog]_vars

\* C40: Log gives one CommitInfo for every commit it lists, FullHash is the
\* full hash of that commit and Message its subject line, whatever the
\* subject holds, and a restore passes the full hash of the commit selected
\* to ResetHard.
LogGivesHashAndSubject ==
    /\ (lastOp.kind = "LogText" /\ ~lastOp.out.err) =>
          /\ Len(lastOp.out.commits) = lastOp.in.head
          /\ \A i \in 1..Len(lastOp.out.commits) :
                /\ lastOp.out.commits[i].FullHash = FullHash(lastOp.in.head + 1 - i)
                /\ lastOp.out.commits[i].Message = lastOp.in.subjects[lastOp.in.head + 1 - i]
    /\ lastOp.kind = "doRestore" =>
          lastOp.out.commitHash = FullHash(lastOp.in.head - lastOp.in.cursor)

====
